---- MODULE Spec2Model ----
(***************************************************************************)
(* NarrativeIQ: the credit-metering protocol of the legacy single-file     *)
(* backend (src/app/app.py) and of the layered routers (src/app/routers),  *)
(* as a state machine of concurrent requests of one user against one       *)
(* credit balance, one audit log and one document store.                   *)
(***************************************************************************)
EXTENDS Integers, Sequences, FiniteSets

\* ------------------------------------------------------------------ bounds
NumReq == 2
MaxBalance == 3
MaxTokens == 2
MaxNodes == 2
MaxEdges == 2
MaxChars == 4
MaxWords == 3
LongWords == 200
MaxDocs == 2
MaxThemes == 7
MaxScore == 3
MaxMentions == 2
NumPay == 2

\* ------------------------------------------------------- program constants
PERSONA_TEXT_MAX == 50000
MINDMAP_TEXT_MIN == 100
MINDMAP_TEXT_MAX == 30000
STORY_TEXT_MIN == 20
ADD_AMOUNT_MIN == 1
ADD_AMOUNT_MAX == 100
ADD_AMOUNT_DEFAULT == 5
SCHEMA_TEXT_MIN == 10
ENHANCE_TEXT_MAX == 20000
SCHEMA_TEXT_MAX == 30000
NAME_MIN == 1
STARTER_CREDITS == 20
THEMES_CAP == 6
HEURISTIC_TOP == 5
THEME_SCORE_MIN == 2
NAME_MAX == 100

PERSONAS == {"technical", "business", "finance", "simplified", "comedian", "poet"}

PersonaEnum == {"technical", "business", "finance", "simplified", "comedian", "poet"}

\* --------------------------------------------------------------- handlers
LegacyMetered ==
  {"persona_enhance", "consistency_check", "structure_check", "character_evolution",
   "deep_scan", "generate_mindmap_route", "mindmap_image_route", "story_complete"}

LayeredMetered == {"enhance", "consistency", "mindmap", "evolution"}

Metered == LegacyMetered \cup LayeredMetered

Handlers == Metered \cup {"add_credits_route"}

\* The routes of each backend.
Routes(v) == IF v = "layered" THEN LayeredMetered ELSE Handlers \ LayeredMetered

\* FEATURE_PRICING is informational: each legacy route passes its cost as a
\* literal to deduct_credits, add_credits and save_enhancement.
LegacyCost(h) ==
  IF h \in {"deep_scan", "generate_mindmap_route", "mindmap_image_route", "story_complete"}
  THEN 2 ELSE 1

\* settings.CREDIT_COST, read once at import into each router's COST.
CREDIT_COST(h) == IF h = "enhance" THEN 1 ELSE 2

Cost(h) ==
  IF h \in LegacyMetered THEN LegacyCost(h)
  ELSE IF h \in LayeredMetered THEN CREDIT_COST(h)
  ELSE 0

\* The amount each handler passes to add_credits in its except clause: the
\* literal of the legacy handler (COST in story_complete), the router's COST.
refund_amount_unit(h) == IF h \in Metered THEN 1 ELSE 0

refund_amount(h) ==
  CASE h \in {"persona_enhance", "consistency_check", "structure_check",
              "character_evolution"} -> 1
    [] h \in {"deep_scan", "generate_mindmap_route", "mindmap_image_route",
              "story_complete"} -> 2
    [] h \in LayeredMetered -> CREDIT_COST(h)
    [] OTHER -> 0

\* The credits_used each handler passes to save_enhancement / log_analysis.
audit_credits_used(h) ==
  CASE h \in {"persona_enhance", "consistency_check", "structure_check",
              "character_evolution"} -> 1
    [] h \in {"deep_scan", "generate_mindmap_route", "mindmap_image_route",
              "story_complete"} -> 2
    [] h \in LayeredMetered -> CREDIT_COST(h)
    [] OTHER -> 0

\* The handlers whose answer has a "credits_used" field, and its value.
ReportsCreditsUsed == LegacyMetered \ {"mindmap_image_route"}

response_credits_used(h) ==
  CASE h \in {"persona_enhance", "consistency_check", "structure_check",
              "character_evolution"} -> 1
    [] h \in {"deep_scan", "generate_mindmap_route", "story_complete"} -> 2
    [] OTHER -> 0

\* ------------------------------------------------------------------ inputs
\* A text is its stripped core of n characters with pad characters of
\* surrounding whitespace.
TextLen(t) == t.pad + t.n

Strip(t) == [pad |-> 0, n |-> t.n]

Text(p, k) == [pad |-> p, n |-> k]

\* A request body.  name is the length of character_name; entities tells
\* whether the entity extractor finds an entity in the text; amount is the
\* JSON number of the add-credits body, counted in halves (3 is 1.5).
Body(t, p, nm, d, e, a) ==
  [text |-> t, persona |-> p, name |-> nm, doc_id |-> d, entities |-> e, amount |-> a]

DefaultBody == Body(Text(0, 200), "simplified", 5, FALSE, TRUE, 2 * ADD_AMOUNT_DEFAULT)

TextLens ==
  {0, SCHEMA_TEXT_MIN - 1, SCHEMA_TEXT_MIN, STORY_TEXT_MIN - 1, STORY_TEXT_MIN,
   MINDMAP_TEXT_MIN - 1, MINDMAP_TEXT_MIN, ENHANCE_TEXT_MAX, ENHANCE_TEXT_MAX + 1,
   SCHEMA_TEXT_MAX, SCHEMA_TEXT_MAX + 1, PERSONA_TEXT_MAX, PERSONA_TEXT_MAX + 1}

Texts == {Text(p, k) : p \in {0, 1}, k \in TextLens}

\* A body without a "persona" field.
Absent == "(absent)"

PersonaKeys == PERSONAS \cup {"villain", Absent}

NameLens == {0, NAME_MIN, NAME_MAX, NAME_MAX + 1}

\* The amounts, in halves: the whole numbers at and around the limits, and
\* numbers with a fraction (0.5 below and above 0, 1.5, 100.5).
Amounts ==
  {2 * a : a \in {ADD_AMOUNT_MIN - 1, ADD_AMOUNT_MIN, ADD_AMOUNT_DEFAULT, ADD_AMOUNT_MAX,
                  ADD_AMOUNT_MAX + 1}}
    \cup {-1, 1, 2 * ADD_AMOUNT_MIN + 1, 2 * ADD_AMOUNT_MAX + 1}

\* Every request body a handler distinguishes; the fields a handler never
\* reads keep their default.
Inputs(h) ==
  CASE h \in {"persona_enhance", "enhance"} ->
         {[DefaultBody EXCEPT !.text = t, !.persona = p, !.doc_id = d] :
            t \in Texts, p \in PersonaKeys, d \in IF h = "enhance" THEN {FALSE} ELSE BOOLEAN}
    [] h \in {"character_evolution", "evolution"} ->
         {[DefaultBody EXCEPT !.text = t, !.name = nm] : t \in Texts, nm \in NameLens}
    [] h = "story_complete" ->
         {[DefaultBody EXCEPT !.text = t, !.doc_id = d] : t \in Texts, d \in BOOLEAN}
    [] h = "mindmap" ->
         {[DefaultBody EXCEPT !.text = t, !.entities = e] : t \in Texts, e \in BOOLEAN}
    [] h = "add_credits_route" ->
         {[DefaultBody EXCEPT !.amount = a] : a \in Amounts}
    [] OTHER ->
         {[DefaultBody EXCEPT !.text = t] : t \in Texts}

\* One well-formed body per handler (two where a later step reads the body).
TypicalInputs(h) ==
  CASE h \in {"persona_enhance", "story_complete"} ->
         {[DefaultBody EXCEPT !.doc_id = d] : d \in BOOLEAN}
    [] h = "mindmap" ->
         {[DefaultBody EXCEPT !.entities = e] : e \in BOOLEAN}
    [] h = "add_credits_route" ->
         {[DefaultBody EXCEPT !.amount = 2 * ADD_AMOUNT_MIN]}
    [] OTHER -> {DefaultBody}

\* -------------------------------------------------------------- validation
\* Each returns "ok" or the name of the first check that rejects the body.
\* persona_enhance with its persona check left to enhance_with_persona, whose
\* PERSONAS.get falls back to "simplified" for a key it does not know.
persona_enhance_validate_defaulting(b) ==
  LET text == Strip(b.text) IN
  IF TextLen(text) = 0 THEN "text_required"
  ELSE IF TextLen(text) > PERSONA_TEXT_MAX THEN "text_too_long"
  ELSE "ok"

\* persona_enhance reading the field without a default.
persona_key_verbatim(b) == b.persona

\* persona_enhance: data.get("persona", "simplified")
persona_key(b) == IF b.persona = Absent THEN "simplified" ELSE b.persona

\* enhance_with_persona: PERSONAS.get(persona_key, PERSONAS["simplified"]),
\* by the key of the persona used.
enhance_with_persona_persona(key) == IF key \in PERSONAS THEN key ELSE "simplified"

persona_enhance_validate(b) ==
  LET text == Strip(b.text) IN
  IF TextLen(text) = 0 THEN "text_required"
  ELSE IF TextLen(text) > PERSONA_TEXT_MAX THEN "text_too_long"
  ELSE IF persona_key(b) \notin PERSONAS THEN "unknown_persona"
  ELSE "ok"

text_required_validate(b) ==
  LET text == Strip(b.text) IN
  IF TextLen(text) = 0 THEN "text_required" ELSE "ok"

character_evolution_validate(b) ==
  LET text == Strip(b.text) IN
  IF TextLen(text) = 0 \/ b.name = 0 THEN "text_and_name_required" ELSE "ok"

mindmap_validate(b) ==
  LET text == Strip(b.text) IN
  IF TextLen(text) = 0 THEN "text_required"
  ELSE IF TextLen(text) < MINDMAP_TEXT_MIN THEN "text_too_short"
  ELSE IF TextLen(text) > MINDMAP_TEXT_MAX THEN "text_too_long"
  ELSE "ok"

story_complete_validate(b) ==
  LET text == Strip(b.text) IN
  IF TextLen(text) = 0 THEN "text_required"
  ELSE IF TextLen(text) < STORY_TEXT_MIN THEN "text_too_short"
  ELSE "ok"

\* int() of a JSON number given in halves: the fraction is dropped, towards
\* zero.
int(halves) == IF halves >= 0 THEN halves \div 2 ELSE - ((- halves) \div 2)

add_credits_route_validate(b) ==
  LET amount == int(b.amount) IN
  IF amount < ADD_AMOUNT_MIN \/ amount > ADD_AMOUNT_MAX THEN "amount_out_of_range"
  ELSE "ok"

\* pydantic Field(min_length, max_length) counts the characters of the raw
\* string: nothing strips it.
EnhanceRequest(b) ==
  IF TextLen(b.text) < SCHEMA_TEXT_MIN THEN "string_too_short"
  ELSE IF TextLen(b.text) > ENHANCE_TEXT_MAX THEN "string_too_long"
  ELSE IF b.persona = Absent THEN "missing"
  ELSE IF b.persona \notin PersonaEnum THEN "enum"
  ELSE "ok"

TextRequest(b) ==
  IF TextLen(b.text) < SCHEMA_TEXT_MIN THEN "string_too_short"
  ELSE IF TextLen(b.text) > SCHEMA_TEXT_MAX THEN "string_too_long"
  ELSE "ok"

EvolutionRequest(b) ==
  IF TextRequest(b) # "ok" THEN TextRequest(b)
  ELSE IF b.name < NAME_MIN THEN "string_too_short"
  ELSE IF b.name > NAME_MAX THEN "string_too_long"
  ELSE "ok"

ValidationError(h, b) ==
  CASE h = "persona_enhance" -> persona_enhance_validate(b)
    [] h \in {"consistency_check", "structure_check", "deep_scan"} -> text_required_validate(b)
    [] h = "character_evolution" -> character_evolution_validate(b)
    [] h \in {"generate_mindmap_route", "mindmap_image_route"} -> mindmap_validate(b)
    [] h = "story_complete" -> story_complete_validate(b)
    [] h = "add_credits_route" -> add_credits_route_validate(b)
    [] h = "enhance" -> EnhanceRequest(b)
    [] h \in {"consistency", "mindmap"} -> TextRequest(b)
    [] h = "evolution" -> EvolutionRequest(b)

\* Flask routes answer 400 themselves; FastAPI answers 422 for a body its
\* schema rejects, before the route function runs.
ValidationStatus(h) == IF h \in LayeredMetered THEN 422 ELSE 400

\* ---------------------------------------------------------------- programs
\* What a handler does once its reservation succeeded, as the steps it runs
\* in order.  Try(h) are the steps inside the try block whose except clause
\* refunds; Post(h) are the steps after it, where an exception leaves the
\* handler unhandled (HTTP 500).  Steps:
\*   llm      a call of the text-generation collaborator
\*   parse    json.loads of its output, raising on unparseable text
\*   lenient  json.loads inside a try that substitutes a fallback result
\*   inspect  the first use of the parsed output as the object it should be
\*   extract  the entity extractor (spaCy) call
\*   render   generate_mindmap_image
\*   doc      save_document (run only when the body names no doc_id)
\*   audit    save_enhancement / log_analysis
\*   send     send_file
\*   balance  get_user_credits / get_credits
\*   stream   the token loop of the streaming response
\*   add      add_credits of the add-credits route
Try(h, b) ==
  CASE h \in {"persona_enhance", "consistency_check", "structure_check",
              "character_evolution", "story_complete"} -> <<"llm", "parse">>
    [] h = "deep_scan" -> <<"llm", "parse", "llm", "parse", "inspect">>
    [] h = "generate_mindmap_route" ->
         <<"llm", "parse", "inspect", "llm", "parse", "inspect">>
    [] h = "mindmap_image_route" ->
         <<"llm", "parse", "inspect", "llm", "parse", "inspect", "render", "audit", "send">>
    [] h \in {"consistency", "evolution"} -> <<"llm", "parse">>
    [] h = "mindmap" ->
         IF b.entities THEN <<"extract", "llm", "lenient", "inspect">>
         ELSE <<"extract", "llm", "lenient">>
    [] h = "enhance" -> <<"stream", "balance", "audit">>
    [] OTHER -> << >>

Post(h, b) ==
  CASE h \in {"persona_enhance", "story_complete"} ->
         IF b.doc_id THEN <<"inspect", "audit">> ELSE <<"inspect", "doc", "audit">>
    [] h \in {"consistency_check", "structure_check", "character_evolution", "deep_scan",
              "generate_mindmap_route"} -> <<"audit">>
    [] h \in {"consistency", "evolution", "mindmap"} -> <<"balance", "audit", "inspect">>
    [] h = "add_credits_route" -> <<"add", "balance">>
    [] OTHER -> << >>

\* ------------------------------------------------------------------- state
VARIABLES
  balance,    \* the user's credits (users.credits / profiles.credits)
  audit,      \* the enhancements / analyses table, in insertion order
  documents,  \* the documents collection, in insertion order
  rq,         \* the requests: handler, body, position and what each did so far
  opening,    \* the balance before the first request (never changes)
  variant,    \* which backend runs: "legacy" (app.py, MongoDB) or "layered"
              \* (main.py and its routers, Supabase); each has its own store
  call,       \* a call of one of the pure functions: its name, arguments and,
              \* once it returned, its result
  transactions, \* the transactions table, by payment intent id
  pay         \* the verify-payment calls and webhook deliveries

vars == <<balance, audit, documents, rq, opening, variant, call, transactions, pay>>

\* The payment intents of the provider: one created by the caller's order,
\* one by another user's; "pi_0" is an id the provider does not know.
PaymentIntents == {"pi_1", "pi_2"}

\* intent["metadata"]["user_id"], set by create_order
IntentUser(intent) == IF intent = "pi_1" THEN "u1" ELSE "u2"

\* The row create_order stores, before and after it was processed; no row
\* when the insert did not happen.
TransactionRows(intent) ==
  [user_id : {IntentUser(intent)}, credits_purchased : {STARTER_CREDITS},
   status : {"absent", "pending", "success"}]

Pay == 1 .. NumPay

IdlePay == [kind |-> "none", intent |-> "none", pc |-> "idle", status |-> 0,
            intent_status |-> "none", saw |-> "none", credits |-> 0,
            added |-> 0, marked |-> FALSE]

NoPayments ==
  /\ transactions = [i \in PaymentIntents |->
                       [user_id |-> IntentUser(i), credits_purchased |-> STARTER_CREDITS,
                        status |-> "absent"]]
  /\ pay = [p \in Pay |-> IdlePay]

Req == 1 .. NumReq

Idle ==
  [h |-> "none", in |-> DefaultBody, pc |-> "idle", i |-> 0, seen |-> 0,
   refused |-> FALSE, out |-> "none", bad |-> FALSE, unparseable |-> FALSE, status |-> 0, event |-> "none",
   tokens |-> 0, debits |-> 0, refunds |-> 0, llm |-> 0, ner |-> 0, logged |-> 0,
   docs |-> 0, added |-> 0, fail |-> "none", remaining |-> 0,
   reserved |-> 0, refunded |-> 0, used |-> 0,
   chunks |-> << >>, events |-> << >>]

\* No pure function is being called.
NoCall == [fn |-> "none", args |-> << >>, returned |-> FALSE, result |-> << >>]

Init ==
  /\ call = NoCall
  /\ NoPayments
  /\ balance \in 0 .. MaxBalance
  /\ audit = << >>
  /\ documents = << >>
  /\ rq = [r \in Req |-> Idle]
  /\ opening = balance
  /\ variant \in {"legacy", "layered"}

\* The current step of a request inside its try block or after it.
Steps(q) == IF q.pc = "try" THEN Try(q.h, q.in) ELSE Post(q.h, q.in)

At(q, kind) ==
  /\ q.pc \in {"try", "post"}
  /\ q.i <= Len(Steps(q))
  /\ Steps(q)[q.i] = kind

\* The server-sent events of routers/enhance.py, by the keys of their JSON
\* payload.  A token is named by its place in the collaborator's output.
TokenEvent(token) ==
  [keys |-> {"token", "done"}, done |-> FALSE, token |-> token, credits_remaining |-> 0]

FinalEvent(credits_remaining) ==
  [keys |-> {"done", "diff", "credits_remaining"}, done |-> TRUE, token |-> 0,
   credits_remaining |-> credits_remaining]

ErrorEvent ==
  [keys |-> {"error", "done"}, done |-> TRUE, token |-> 0, credits_remaining |-> 0]

\* A generator whose newest event overtakes those already sent.
Emit_overtaking(events, e) == <<e>> \o events

\* yield: the event goes to the caller after those already sent.
Emit(events, e) == Append(events, e)

\* The response of a handler that ran to its return statement.
Returned(q) ==
  [q EXCEPT !.pc = "done", !.i = 0,
            !.status = 200,
            !.used = response_credits_used(q.h),
            !.event = IF q.h = "enhance" THEN "final" ELSE q.event,
            !.events = IF q.h = "enhance" THEN Emit(q.events, FinalEvent(q.remaining))
                       ELSE q.events]

\* The request after its reservation succeeded: at the first step it has.
Started(q) ==
  IF Try(q.h, q.in) # << >> THEN [q EXCEPT !.pc = "try", !.i = 1]
  ELSE IF Post(q.h, q.in) # << >> THEN [q EXCEPT !.pc = "post", !.i = 1]
  ELSE Returned(q)

\* The request after its current step completed without an exception.
Advance(q) ==
  IF q.i < Len(Steps(q)) THEN [q EXCEPT !.i = q.i + 1]
  ELSE IF q.pc = "try" /\ Post(q.h, q.in) # << >> THEN [q EXCEPT !.pc = "post", !.i = 1]
  ELSE Returned(q)

\* The request after its current step raised `why`: the except clause of the
\* try block refunds; past the try block nothing catches the exception.
Raise(q, why) ==
  IF q.pc = "try" THEN [q EXCEPT !.pc = "refund", !.i = 0, !.fail = why]
  ELSE [q EXCEPT !.pc = "done", !.i = 0, !.fail = why, !.status = 500]

Set(r, q) == rq' = [rq EXCEPT ![r] = q]

\* ----------------------------------------------------------------- arrival
\* A request arrives with a well-formed body.  Requests are numbered in the
\* order they arrive.
Begin(r) ==
  /\ rq[r].pc = "idle"
  /\ IF r = 1 THEN TRUE ELSE rq[r - 1].pc # "idle"
  /\ \E h \in Routes(variant) : \E b \in TypicalInputs(h) :
       Set(r, [Idle EXCEPT !.h = h, !.in = b, !.pc = "validate"])
  /\ UNCHANGED <<transactions, pay, call, variant, opening, balance, audit, documents>>

\* A single request arrives with any body.
BeginOne ==
  /\ rq[1].pc = "idle"
  /\ \E h \in Routes(variant) : \E b \in Inputs(h) :
       Set(1, [Idle EXCEPT !.h = h, !.in = b, !.pc = "validate"])
  /\ UNCHANGED <<transactions, pay, call, variant, opening, balance, audit, documents>>

Validate(r) ==
  LET q == rq[r]
      e == ValidationError(q.h, q.in) IN
  /\ q.pc = "validate"
  /\ Set(r, IF e # "ok"
            THEN [q EXCEPT !.pc = "done", !.status = ValidationStatus(q.h), !.fail = e]
            ELSE IF q.h \in Metered THEN [q EXCEPT !.pc = "reserve"]
            ELSE Started(q))
  /\ UNCHANGED <<transactions, pay, call, variant, opening, balance, audit, documents>>

\* ------------------------------------------------------------- reservation
\* app.py deduct_credits: the guard on the user document it has just read.
app_deduct_credits_sufficient(credits, amount) == ~(credits < amount)

\* app.py deduct_credits, lines 109-111: find_one, then the guard.
app_deduct_credits_read(r) ==
  LET q == rq[r] IN
  /\ q.pc = "reserve"
  /\ q.h \in LegacyMetered
  /\ Set(r, IF app_deduct_credits_sufficient(balance, Cost(q.h))
            THEN [q EXCEPT !.pc = "reserve_write", !.seen = balance]
            ELSE [q EXCEPT !.pc = "done", !.seen = balance, !.refused = TRUE,
                           !.status = 402, !.fail = "insufficient"])
  /\ UNCHANGED <<transactions, pay, call, variant, opening, balance, audit, documents>>

\* app.py deduct_credits, line 112: update_one with $inc, whatever the
\* balance has become since the read.
app_deduct_credits_write(r) ==
  LET q == rq[r] IN
  /\ q.pc = "reserve_write"
  /\ balance' = balance - Cost(q.h)
  /\ Set(r, Started([q EXCEPT !.debits = q.debits + 1,
                              !.reserved = q.reserved + Cost(q.h)]))
  /\ UNCHANGED <<transactions, pay, call, variant, opening, audit, documents>>

\* The Postgres function behind supabase.rpc("deduct_credits"): one
\* conditional update, TRUE when it debited.
rpc_deduct_credits(credits, amount) ==
  IF credits >= amount THEN [data |-> TRUE, credits |-> credits - amount]
  ELSE [data |-> FALSE, credits |-> credits]

\* db/supabase.py deduct_credits and the router's branch on its result.
db_deduct_credits(r) ==
  LET q == rq[r]
      res == rpc_deduct_credits(balance, Cost(q.h)) IN
  /\ q.pc = "reserve"
  /\ q.h \in LayeredMetered
  /\ balance' = res.credits
  /\ Set(r, IF res.data
            THEN Started([q EXCEPT !.debits = q.debits + 1,
                                   !.reserved = q.reserved + Cost(q.h),
                                   !.status = IF q.h = "enhance" THEN 200 ELSE 0])
            ELSE [q EXCEPT !.pc = "insufficient", !.refused = TRUE])
  /\ UNCHANGED <<transactions, pay, call, variant, opening, audit, documents>>

\* The router's get_user_credits for the body of its 402 answer.
InsufficientCredits(r) ==
  LET q == rq[r] IN
  /\ q.pc = "insufficient"
  /\ \E ok \in BOOLEAN :
       Set(r, IF ok
              THEN [q EXCEPT !.pc = "done", !.status = 402, !.remaining = balance,
                             !.fail = "insufficient"]
              ELSE [q EXCEPT !.pc = "done", !.status = 500, !.fail = "balance_read"])
  /\ UNCHANGED <<transactions, pay, call, variant, opening, balance, audit, documents>>

\* ------------------------------------------------------------------- steps
\* What a call of the text-generation collaborator can do: raise (an API
\* error or a timeout), or return text that is the JSON object asked for
\* ("ok"), not JSON at all ("nonjson"), or JSON of another shape
\* ("badshape": not an object, or an object whose fields have other types).
LLMOutcomes == {"raise", "ok", "nonjson", "badshape"}

\* _call_gemini / run_llm
CallLLM(r) ==
  LET q == rq[r] IN
  /\ At(q, "llm")
  /\ \E o \in LLMOutcomes :
       Set(r, IF o = "raise"
              THEN Raise([q EXCEPT !.llm = q.llm + 1], "collab_error")
              ELSE Advance([q EXCEPT !.llm = q.llm + 1, !.out = o]))
  /\ UNCHANGED <<transactions, pay, call, variant, opening, balance, audit, documents>>

\* _parse_json / json.loads, uncaught where it is called
Parse(r) ==
  LET q == rq[r] IN
  /\ At(q, "parse")
  /\ Set(r, IF q.out = "nonjson"
            THEN Raise([q EXCEPT !.out = "none", !.unparseable = TRUE], "unparseable")
            ELSE Advance([q EXCEPT !.out = "none", !.bad = q.bad \/ q.out = "badshape"]))
  /\ UNCHANGED <<transactions, pay, call, variant, opening, balance, audit, documents>>

\* services/graph.py: json.loads whose exception is caught and replaced by
\* a fallback result (no edges / an empty graph).
Lenient(r) ==
  LET q == rq[r] IN
  /\ At(q, "lenient")
  /\ Set(r, IF q.out = "nonjson"
            THEN Advance([q EXCEPT !.out = "none", !.unparseable = TRUE])
            ELSE Advance([q EXCEPT !.out = "none", !.bad = q.bad \/ q.out = "badshape"]))
  /\ UNCHANGED <<transactions, pay, call, variant, opening, balance, audit, documents>>

\* result.get(...), entities.get(...), e["source"], the response_model:
\* AttributeError / KeyError / a response validation error on another shape.
Inspect(r) ==
  LET q == rq[r] IN
  /\ At(q, "inspect")
  /\ Set(r, IF q.bad THEN Raise(q, "badshape") ELSE Advance(q))
  /\ UNCHANGED <<transactions, pay, call, variant, opening, balance, audit, documents>>

\* services/nlp.py extract_entities, called by build_graph
Extract(r) ==
  LET q == rq[r] IN
  /\ At(q, "extract")
  /\ Set(r, Advance([q EXCEPT !.ner = q.ner + 1]))
  /\ UNCHANGED <<transactions, pay, call, variant, opening, balance, audit, documents>>

\* generate_mindmap_image
Render(r) ==
  LET q == rq[r] IN
  /\ At(q, "render")
  /\ \E ok \in BOOLEAN : Set(r, IF ok THEN Advance(q) ELSE Raise(q, "render"))
  /\ UNCHANGED <<transactions, pay, call, variant, opening, balance, audit, documents>>

\* send_file
SendFile(r) ==
  LET q == rq[r] IN
  /\ At(q, "send")
  /\ \E ok \in BOOLEAN : Set(r, IF ok THEN Advance(q) ELSE Raise(q, "send"))
  /\ UNCHANGED <<transactions, pay, call, variant, opening, balance, audit, documents>>

\* The authenticated user of the metered requests, and another user.
Caller == "u1"

Users == {Caller, "u2"}

\* The ids the store gives out, by insertion order ("d1", "d2", ...), and a
\* string that is not the text of an ObjectId.
ObjectIdAt(k) == "d" \o (CASE k = 1 -> "1" [] k = 2 -> "2" [] k = 3 -> "3" [] OTHER -> "n")

ObjectIds == {ObjectIdAt(k) : k \in 1 .. MaxDocs + 1}

Malformed == "zz"

\* save_document: persona_enhance stores the original text, story_complete
\* the completed story.
save_document(r) ==
  LET q == rq[r] IN
  /\ At(q, "doc")
  /\ \E ok \in BOOLEAN :
       IF ok
       THEN /\ documents' = Append(documents,
                 [_id |-> ObjectIdAt(Len(documents) + 1), user_id |-> Caller, req |-> r,
                  content |-> IF q.h = "story_complete" THEN "completed" ELSE "original"])
            /\ Set(r, Advance([q EXCEPT !.docs = q.docs + 1]))
       ELSE /\ documents' = documents
            /\ Set(r, Raise(q, "doc_write"))
  /\ UNCHANGED <<transactions, pay, call, variant, opening, balance, audit>>

\* A log that keeps the newest record only.
save_enhancement_replacing(r) ==
  LET q == rq[r] IN
  /\ At(q, "audit")
  /\ audit' = <<[req |-> r, operation |-> q.h, credits_used |-> Cost(q.h), persona |-> "None"]>>
  /\ Set(r, Advance([q EXCEPT !.logged = q.logged + 1]))
  /\ UNCHANGED <<transactions, pay, call, variant, opening, balance, documents>>

\* save_enhancement / log_analysis
save_enhancement(r) ==
  LET q == rq[r] IN
  /\ At(q, "audit")
  /\ \E ok \in BOOLEAN :
       IF ok
       THEN /\ audit' = Append(audit,
                 [req |-> r, operation |-> q.h, credits_used |-> audit_credits_used(q.h),
                  persona |-> CASE q.h = "persona_enhance" -> persona_key(q.in)
                                [] q.h = "enhance" -> q.in.persona
                                [] OTHER -> "None"])
            /\ Set(r, Advance([q EXCEPT !.logged = q.logged + 1]))
       ELSE /\ audit' = audit
            /\ Set(r, Raise(q, "audit_write"))
  /\ UNCHANGED <<transactions, pay, call, variant, opening, balance, documents>>

\* A handler answering with the balance it had read before the reservation.
get_user_credits_before(r) ==
  LET q == rq[r] IN
  /\ At(q, "balance")
  /\ \E ok \in BOOLEAN :
       Set(r, IF ok THEN Advance([q EXCEPT !.remaining = balance + q.debits * Cost(q.h)])
              ELSE Raise(q, "balance_read"))
  /\ UNCHANGED <<transactions, pay, call, variant, opening, balance, audit, documents>>

\* get_user_credits / get_credits after the work
get_user_credits(r) ==
  LET q == rq[r] IN
  /\ At(q, "balance")
  /\ \E ok \in BOOLEAN :
       Set(r, IF ok THEN Advance([q EXCEPT !.remaining = balance])
              ELSE Raise(q, "balance_read"))
  /\ UNCHANGED <<transactions, pay, call, variant, opening, balance, audit, documents>>

\* routers/enhance.py event_generator: the loop over stream_enhance_text.
\* The collaborator is called when the loop starts.  It produces a chunk
\* whose delta is a token ("token") or is empty ("skip"), ends, or raises;
\* stream_enhance_text passes on the non-empty deltas and each is yielded as
\* one event.  chunks records the collaborator's output in generation order,
\* an empty delta as 0.
Stream(r) ==
  LET q == rq[r]
      n == Len(q.chunks) + 1 IN
  /\ At(q, "stream")
  /\ \E o \in {"token", "skip", "end", "raise"} :
       /\ o \in {"token", "skip"} => Len(q.chunks) < MaxTokens
       /\ Set(r, CASE o = "token" ->
                        [q EXCEPT !.llm = 1, !.tokens = q.tokens + 1,
                                  !.chunks = Append(q.chunks, n),
                                  !.events = Emit(q.events, TokenEvent(n))]
                   [] o = "skip" -> [q EXCEPT !.llm = 1, !.chunks = Append(q.chunks, 0)]
                   [] o = "end" -> Advance([q EXCEPT !.llm = 1])
                   [] o = "raise" -> Raise([q EXCEPT !.llm = 1], "collab_error"))
  /\ UNCHANGED <<transactions, pay, call, variant, opening, balance, audit, documents>>

\* A generator whose except clause also catches the cancellation.
Disconnect_caught(r) ==
  LET q == rq[r] IN
  /\ q.h = "enhance"
  /\ q.pc = "try"
  /\ Set(r, [q EXCEPT !.pc = "refund", !.i = 0, !.fail = "cancelled"])
  /\ UNCHANGED <<transactions, pay, call, variant, opening, balance, audit, documents>>

\* The client goes away while the event generator runs: the generator is
\* cancelled by a BaseException that `except Exception` does not catch.
Disconnect(r) ==
  LET q == rq[r] IN
  /\ q.h = "enhance"
  /\ q.pc = "try"
  /\ Set(r, [q EXCEPT !.pc = "done", !.i = 0, !.fail = "cancelled"])
  /\ UNCHANGED <<transactions, pay, call, variant, opening, balance, audit, documents>>

\* add_credits of the add-credits route: $inc by the amount
add_credits_route(r) ==
  LET q == rq[r] IN
  /\ At(q, "add")
  /\ balance' = balance + int(q.in.amount)
  /\ Set(r, Advance([q EXCEPT !.added = int(q.in.amount)]))
  /\ UNCHANGED <<transactions, pay, call, variant, opening, audit, documents>>

\* The except clause: add_credits of the cost, then the error answer (an
\* error event on the stream that already answered 200).
add_credits(r) ==
  LET q == rq[r] IN
  /\ q.pc = "refund"
  /\ balance' = balance + refund_amount(q.h)
  /\ Set(r, [q EXCEPT !.pc = "done", !.refunds = q.refunds + 1,
                      !.refunded = q.refunded + refund_amount(q.h),
                      !.status = IF q.h = "enhance" THEN 200 ELSE 500,
                      !.event = IF q.h = "enhance" THEN "error" ELSE q.event,
                      !.events = IF q.h = "enhance" THEN Emit(q.events, ErrorEvent)
                                 ELSE q.events])
  /\ UNCHANGED <<transactions, pay, call, variant, opening, audit, documents>>

\* ------------------------------------------------------------ specification
Step(r) ==
  \/ Validate(r)
  \/ app_deduct_credits_read(r)
  \/ app_deduct_credits_write(r)
  \/ db_deduct_credits(r)
  \/ InsufficientCredits(r)
  \/ CallLLM(r)
  \/ Parse(r)
  \/ Lenient(r)
  \/ Inspect(r)
  \/ Extract(r)
  \/ Render(r)
  \/ SendFile(r)
  \/ save_document(r)
  \/ save_enhancement(r)
  \/ get_user_credits(r)
  \/ Stream(r)
  \/ Disconnect(r)
  \/ add_credits_route(r)
  \/ add_credits(r)

\* Concurrent requests of one user.
Next == \E r \in Req : Begin(r) \/ Step(r)

Spec == Init /\ [][Next]_vars

\* A record an earlier request of the user has left in the log.
EarlierRecord ==
  [req |-> 0, operation |-> "deep_scan", credits_used |-> LegacyCost("deep_scan"),
   persona |-> "None"]

\* One request, arriving when the log is empty or has a record of an earlier
\* request.
InitLog ==
  /\ call = NoCall
  /\ NoPayments
  /\ balance \in 0 .. MaxBalance
  /\ audit \in {<< >>, <<EarlierRecord>>}
  /\ documents = << >>
  /\ rq = [r \in Req |-> Idle]
  /\ opening = balance
  /\ variant \in {"legacy", "layered"}


\* One request, with every body its handler distinguishes.
NextOne == BeginOne \/ \E r \in Req : Step(r)

SpecOne == Init /\ [][NextOne]_vars

SpecLog == InitLog /\ [][NextOne]_vars

\* ------------------------------------------------------------------ graphs
\* All sequences over S of length at most n.
SeqsUpTo(S, n) == UNION {[1 .. k -> S] : k \in 0 .. n}

\* Entity ids and names as the extractor or the collaborator may give them.
Ids == {"a", "b", "c"}

\* A proposed edge: {"source": ..., "target": ...}
Edges == [source : Ids, target : Ids]

\* The collaborator's reply to a graph prompt: text that is not JSON, or an
\* object with the nodes and edges it proposes.
GraphReplies ==
  {[parsed |-> FALSE, nodes |-> << >>, edges |-> << >>, themes |-> << >>]}
    \cup [parsed : {TRUE},
          nodes : SeqsUpTo([id : Ids], MaxNodes),
          edges : SeqsUpTo(Edges, MaxEdges),
          themes : {<< >>}]

\* The first n entries of a list: list[:n]
Take(list, n) == SubSeq(list, 1, IF Len(list) < n THEN Len(list) ELSE n)

\* Theme names as the collaborator words them.
CollaboratorThemes == <<"t1", "t2", "t3", "t4", "t5", "t6", "t7", "t8", "t9">>

\* services/nlp.py extract_themes_heuristic: the keys of theme_keywords.
theme_keywords ==
  <<"Friendship", "Conflict", "Love", "Betrayal", "Growth", "Loss", "Power", "Redemption">>

\* The text as extract_themes_heuristic reads it: for each theme, in the
\* order of theme_keywords, the sum over its keywords of text_lower.count(kw).
ThemeScores == [1 .. Len(theme_keywords) -> 0 .. MaxScore]

\* The score vector of a text in which the first h themes score 2 and the
\* others nothing.
FirstThemes(h) == [k \in 1 .. Len(theme_keywords) |-> IF k <= h THEN THEME_SCORE_MIN ELSE 0]

\* extract_themes_heuristic, the loop: the (theme, score) pairs of the themes
\* that score at least 2, in the order of theme_keywords.
found_themes(score) ==
  LET pairs == [k \in 1 .. Len(theme_keywords) |-> [theme |-> theme_keywords[k], score |-> score[k]]] IN
  SelectSeq(pairs, LAMBDA t : t.score >= THEME_SCORE_MIN)

\* list.sort left out: the pairs as they are.
unsorted(found) == found

\* found_themes.sort(key=score, reverse=True): by descending score, pairs of
\* one score in the order they had (the sort is stable).
sort_by_score(found) ==
  LET rank(i) == 1 + Cardinality({j \in 1 .. Len(found) :
                                    \/ found[j].score > found[i].score
                                    \/ found[j].score = found[i].score /\ j < i}) IN
  [p \in 1 .. Len(found) |-> found[CHOOSE i \in 1 .. Len(found) : rank(i) = p]]

\* services/nlp.py extract_themes_heuristic: the names of the first five
\* pairs after the sort.
extract_themes_heuristic(score) ==
  LET top == Take(sort_by_score(found_themes(score)), HEURISTIC_TOP) IN
  [p \in 1 .. Len(top) |-> top[p].theme]

\* The entities of extract_entities: none, or some; two entities of
\* different labels can have one id (labels "a b" and "a_b").
RawEntities == SeqsUpTo([id : Ids], MaxNodes)

\* services/graph.py _full_llm_graph: the parsed reply as it is, or an empty
\* graph when it does not parse.
\* calls lists the prompts sent to the collaborator by run_llm.
full_llm_graph(reply) ==
  IF reply.parsed
  THEN [nodes |-> reply.nodes, edges |-> reply.edges, themes |-> reply.themes,
        calls |-> <<"full_graph">>]
  ELSE [nodes |-> << >>, edges |-> << >>, themes |-> << >>, calls |-> <<"full_graph">>]

\* build_graph that adds the nodes the collaborator names to the entities.
build_graph_with_reply_nodes(raw_entities, heuristic_themes, reply) ==
  IF raw_entities = << >> THEN full_llm_graph(reply)
  ELSE [nodes |-> raw_entities \o reply.nodes, edges |-> << >>, themes |-> << >>,
        calls |-> <<"relationships">>]

\* services/graph.py build_graph: without entities the fallback; otherwise
\* the entities as nodes and the proposed edges (none when the reply does
\* not parse) whose source and target are node ids.
\* The themes are the collaborator's, or the heuristic ones when the reply
\* does not parse or has none, cut to six.
build_graph(raw_entities, heuristic_themes, reply) ==
  IF raw_entities = << >> THEN full_llm_graph(reply)
  ELSE
    LET nodes == raw_entities
        edges == IF reply.parsed THEN reply.edges ELSE << >>
        node_ids == {nodes[k].id : k \in 1 .. Len(nodes)}
        valid(e) == e.source \in node_ids /\ e.target \in node_ids
        llm_themes == IF reply.parsed THEN reply.themes ELSE heuristic_themes
        themes == IF llm_themes # << >> THEN llm_themes ELSE heuristic_themes IN
    [nodes |-> nodes, edges |-> SelectSeq(edges, valid), themes |-> Take(themes, THEMES_CAP),
     calls |-> <<"relationships">>]

\* generate_mindmap: f"node_{len(nodes)}"
NodeId(k) == <<"node", k>>

\* generate_mindmap add_node: a name seen before keeps its node.
add_node(nodes, name) ==
  IF \E k \in 1 .. Len(nodes) : nodes[k].label = name THEN nodes
  ELSE Append(nodes, [id |-> NodeId(Len(nodes)), label |-> name])

RECURSIVE add_nodes(_, _)
add_nodes(nodes, names) ==
  IF names = << >> THEN nodes
  ELSE add_nodes(add_node(nodes, Head(names)), Tail(names))

\* node_id_map.get(name): the id, or None (the empty tuple).
node_id_map_get(nodes, name) ==
  IF \E k \in 1 .. Len(nodes) : nodes[k].label = name
  THEN (CHOOSE n \in {nodes[k] : k \in 1 .. Len(nodes)} : n.label = name).id
  ELSE << >>

RECURSIVE mindmap_edges(_, _)
mindmap_edges(nodes, relationships) ==
  IF relationships = << >> THEN << >>
  ELSE LET rel == Head(relationships)
           src == node_id_map_get(nodes, rel.source)
           tgt == node_id_map_get(nodes, rel.target) IN
       (IF src # << >> /\ tgt # << >> THEN <<[source |-> src, target |-> tgt]>> ELSE << >>)
         \o mindmap_edges(nodes, Tail(relationships))

\* app.py generate_mindmap, step 3: names are the names of the characters,
\* locations, organizations and themes in that order; relationships hold
\* the "from" and "to" names the collaborator gave (here source, target).
generate_mindmap(names, relationships) ==
  LET nodes == add_nodes(<< >>, names) IN
  [nodes |-> nodes, edges |-> mindmap_edges(nodes, relationships)]

\* The state in which only a pure function is called: no request, an empty
\* store.
Quiet ==
  /\ NoPayments
  /\ balance = 0 /\ opening = 0 /\ variant = "layered"
  /\ audit = << >> /\ documents = << >>
  /\ rq = [r \in Req |-> Idle]

InitGraph ==
  /\ Quiet
  /\ \/ \E e \in RawEntities, o \in GraphReplies :
          call = [fn |-> "build_graph",
                  args |-> [raw_entities |-> e, score |-> FirstThemes(0), reply |-> o],
                  returned |-> FALSE, result |-> << >>]
     \/ \E e \in {<< >>, <<[id |-> "a"]>>}, h \in 0 .. MaxThemes, n \in 0 .. MaxThemes,
           parsed \in BOOLEAN :
          call = [fn |-> "build_graph",
                  args |-> [raw_entities |-> e,
                            score |-> FirstThemes(h),
                            reply |-> [parsed |-> parsed, nodes |-> << >>, edges |-> << >>,
                                       themes |-> IF parsed THEN Take(CollaboratorThemes, n)
                                                  ELSE << >>]],
                  returned |-> FALSE, result |-> << >>]
     \/ \E n \in SeqsUpTo(Ids, MaxNodes), l \in SeqsUpTo(Edges, MaxEdges) :
          call = [fn |-> "generate_mindmap", args |-> [names |-> n, relationships |-> l],
                  returned |-> FALSE, result |-> << >>]

Apply_build_graph ==
  /\ call.fn = "build_graph" /\ ~ call.returned
  /\ call' = [call EXCEPT !.returned = TRUE,
                          !.result = build_graph(call.args.raw_entities,
                                                 extract_themes_heuristic(call.args.score),
                                                 call.args.reply)]
  /\ UNCHANGED <<transactions, pay, variant, opening, balance, audit, documents, rq>>

Apply_generate_mindmap ==
  /\ call.fn = "generate_mindmap" /\ ~ call.returned
  /\ call' = [call EXCEPT !.returned = TRUE,
                          !.result = generate_mindmap(call.args.names, call.args.relationships)]
  /\ UNCHANGED <<transactions, pay, variant, opening, balance, audit, documents, rq>>

NextGraph == Apply_build_graph \/ Apply_generate_mindmap

SpecGraph == InitGraph /\ [][NextGraph]_vars

\* extract_themes_heuristic alone, over every score vector.
InitThemes ==
  /\ Quiet
  /\ \E score \in ThemeScores :
       call = [fn |-> "extract_themes_heuristic", args |-> [score |-> score],
               returned |-> FALSE, result |-> << >>]

Apply_extract_themes_heuristic ==
  /\ call.fn = "extract_themes_heuristic" /\ ~ call.returned
  /\ call' = [call EXCEPT !.returned = TRUE,
                          !.result = extract_themes_heuristic(call.args.score)]
  /\ UNCHANGED <<transactions, pay, variant, opening, balance, audit, documents, rq>>

NextThemes == Apply_extract_themes_heuristic

SpecThemes == InitThemes /\ [][NextThemes]_vars

\* ------------------------------------------------------------------- diffs
\* A text is the sequence of its characters.  A word that no function looks
\* into may stand as one element.
Whitespace == {" ", "\n", "\t"}

\* str.split(): the maximal runs of non-whitespace, in order.  The text is
\* split by halves; a word that lies across the middle is put together again.
RECURSIVE split(_)
split(text) ==
  IF text = << >> THEN << >>
  ELSE IF Len(text) = 1 THEN (IF text[1] \in Whitespace THEN << >> ELSE <<text>>)
  ELSE
    LET half == Len(text) \div 2
        left == split(SubSeq(text, 1, half))
        right == split(SubSeq(text, half + 1, Len(text))) IN
    IF text[half] \notin Whitespace /\ text[half + 1] \notin Whitespace
    THEN SubSeq(left, 1, Len(left) - 1) \o <<left[Len(left)] \o right[1]>> \o Tail(right)
    ELSE left \o right

\* "".join(words), by halves
RECURSIVE join_tight(_)
join_tight(words) ==
  IF words = << >> THEN << >>
  ELSE IF Len(words) = 1 THEN words[1]
  ELSE LET half == Len(words) \div 2 IN
       join_tight(SubSeq(words, 1, half)) \o join_tight(SubSeq(words, half + 1, Len(words)))

\* " ".join(words), by halves
RECURSIVE join(_)
join(words) ==
  IF words = << >> THEN << >>
  ELSE IF Len(words) = 1 THEN words[1]
  ELSE LET half == Len(words) \div 2 IN
       join(SubSeq(words, 1, half)) \o <<" ">> \o join(SubSeq(words, half + 1, Len(words)))

\* s[lo:hi] taken as the elements up to and including s[hi]
Slice_inclusive(s, lo, hi) == SubSeq(s, lo + 1, IF hi < Len(s) THEN hi + 1 ELSE hi)

\* s[lo:hi], with indices counted from 0
Slice(s, lo, hi) == SubSeq(s, lo + 1, hi)

\* difflib.SequenceMatcher without junk: the length of the common run of
\* a[i:ahi] and b[j:bhi] from their starts.
RECURSIVE match_len(_, _, _, _, _, _)
match_len(a, b, i, j, ahi, bhi) ==
  IF i < ahi /\ j < bhi /\ a[i + 1] = b[j + 1]
  THEN 1 + match_len(a, b, i + 1, j + 1, ahi, bhi)
  ELSE 0

\* SequenceMatcher.find_longest_match: the longest block common to
\* a[alo:ahi] and b[blo:bhi]; of the longest, the one that starts earliest
\* in a, and of those the one that starts earliest in b; (alo, blo, 0) when
\* nothing matches.
find_longest_match(a, b, alo, ahi, blo, bhi) ==
  LET starts == (alo .. ahi - 1) \X (blo .. bhi - 1)
      len(s) == match_len(a, b, s[1], s[2], ahi, bhi)
      bestsize == CHOOSE k \in {0} \cup {len(s) : s \in starts} :
                    \A s \in starts : len(s) <= k
      best == CHOOSE s \in starts :
                /\ len(s) = bestsize
                /\ \A t \in starts :
                     len(t) = bestsize =>
                       \/ s[1] < t[1]
                       \/ s[1] = t[1] /\ s[2] <= t[2] IN
  IF bestsize = 0 THEN [a |-> alo, b |-> blo, size |-> 0]
  ELSE [a |-> best[1], b |-> best[2], size |-> bestsize]

\* SequenceMatcher.get_matching_blocks, the search: the longest match, then
\* the matches to its left and to its right, in increasing order.
RECURSIVE match_blocks(_, _, _, _, _, _)
match_blocks(a, b, alo, ahi, blo, bhi) ==
  LET m == find_longest_match(a, b, alo, ahi, blo, bhi)
      i == m.a
      j == m.b
      k == m.size IN
  IF k = 0 THEN << >>
  ELSE (IF alo < i /\ blo < j THEN match_blocks(a, b, alo, i, blo, j) ELSE << >>)
       \o <<m>>
       \o (IF i + k < ahi /\ j + k < bhi THEN match_blocks(a, b, i + k, ahi, j + k, bhi)
           ELSE << >>)

\* SequenceMatcher.get_matching_blocks, the clean-up: adjacent blocks become
\* one.  cur is the block being grown.
RECURSIVE collapse(_, _)
collapse(blocks, cur) ==
  IF blocks = << >> THEN (IF cur.size > 0 THEN <<cur>> ELSE << >>)
  ELSE LET nxt == Head(blocks) IN
       IF cur.a + cur.size = nxt.a /\ cur.b + cur.size = nxt.b
       THEN collapse(Tail(blocks), [cur EXCEPT !.size = cur.size + nxt.size])
       ELSE (IF cur.size > 0 THEN <<cur>> ELSE << >>) \o collapse(Tail(blocks), nxt)

\* get_matching_blocks without its closing block.
get_matching_blocks_unclosed(a, b) ==
  collapse(match_blocks(a, b, 0, Len(a), 0, Len(b)), [a |-> 0, b |-> 0, size |-> 0])

\* SequenceMatcher.get_matching_blocks: the blocks and the closing
\* (len(a), len(b), 0).
get_matching_blocks(a, b) ==
  collapse(match_blocks(a, b, 0, Len(a), 0, Len(b)), [a |-> 0, b |-> 0, size |-> 0])
    \o <<[a |-> Len(a), b |-> Len(b), size |-> 0]>>

\* SequenceMatcher.get_opcodes: what lies between (i, j) and each block, then
\* the block.
RECURSIVE opcodes_from(_, _, _)
opcodes_from(blocks, i, j) ==
  IF blocks = << >> THEN << >>
  ELSE
    LET m == Head(blocks)
        tag == IF i < m.a /\ j < m.b THEN "replace"
               ELSE IF i < m.a THEN "delete"
               ELSE IF j < m.b THEN "insert"
               ELSE ""
        gap == IF tag # "" THEN <<[tag |-> tag, i1 |-> i, i2 |-> m.a, j1 |-> j, j2 |-> m.b]>>
               ELSE << >>
        equal == IF m.size > 0
                 THEN <<[tag |-> "equal", i1 |-> m.a, i2 |-> m.a + m.size,
                         j1 |-> m.b, j2 |-> m.b + m.size]>>
                 ELSE << >> IN
    gap \o equal \o opcodes_from(Tail(blocks), m.a + m.size, m.b + m.size)

get_opcodes(a, b) == opcodes_from(get_matching_blocks(a, b), 0, 0)

\* compute_diff without its branch for deletions.
opcode_segments_without_delete(op, original_words, enhanced_words) ==
  LET removed == [type |-> "removed", content |-> join(Slice(original_words, op.i1, op.i2))]
      added == [type |-> "added", content |-> join(Slice(enhanced_words, op.j1, op.j2))] IN
  CASE op.tag = "equal" ->
         <<[type |-> "unchanged", content |-> join(Slice(original_words, op.i1, op.i2))]>>
    [] op.tag = "replace" -> <<removed, added>>
    [] op.tag = "delete" -> << >>
    [] op.tag = "insert" -> <<added>>

\* compute_diff with the segments of a replacement in the other order.
opcode_segments_added_first(op, original_words, enhanced_words) ==
  LET removed == [type |-> "removed", content |-> join(Slice(original_words, op.i1, op.i2))]
      added == [type |-> "added", content |-> join(Slice(enhanced_words, op.j1, op.j2))] IN
  CASE op.tag = "equal" ->
         <<[type |-> "unchanged", content |-> join(Slice(original_words, op.i1, op.i2))]>>
    [] op.tag = "replace" -> <<added, removed>>
    [] op.tag = "delete" -> <<removed>>
    [] op.tag = "insert" -> <<added>>

\* services/diff.py compute_diff, the body of the loop: the segments of one
\* opcode.
opcode_segments(op, original_words, enhanced_words) ==
  LET removed == [type |-> "removed", content |-> join(Slice(original_words, op.i1, op.i2))]
      added == [type |-> "added", content |-> join(Slice(enhanced_words, op.j1, op.j2))] IN
  CASE op.tag = "equal" ->
         <<[type |-> "unchanged", content |-> join(Slice(original_words, op.i1, op.i2))]>>
    [] op.tag = "replace" -> <<removed, added>>
    [] op.tag = "delete" -> <<removed>>
    [] op.tag = "insert" -> <<added>>

RECURSIVE segments_of(_, _, _)
segments_of(opcodes, original_words, enhanced_words) ==
  IF opcodes = << >> THEN << >>
  ELSE opcode_segments(Head(opcodes), original_words, enhanced_words)
       \o segments_of(Tail(opcodes), original_words, enhanced_words)

\* services/diff.py compute_diff
compute_diff(original, enhanced) ==
  LET original_words == split(original)
      enhanced_words == split(enhanced) IN
  segments_of(get_opcodes(original_words, enhanced_words), original_words, enhanced_words)

\* difflib.SequenceMatcher with autojunk, as app.py builds it: when b has 200
\* elements or more, the elements that occur in it more than len(b) // 100 + 1
\* times are popular and are left out of the index of b.
bpopular(b) ==
  IF Len(b) >= 200
  THEN {b[j] : j \in {j \in 1 .. Len(b) :
                        Cardinality({k \in 1 .. Len(b) : b[k] = b[j]}) > (Len(b) \div 100) + 1}}
  ELSE {}

\* The length of the common run of a[i:ahi] and b[j:bhi] from their starts
\* that the index of b can find: it stops at a popular element.
RECURSIVE match_len_indexed(_, _, _, _, _, _, _)
match_len_indexed(a, b, popular, i, j, ahi, bhi) ==
  IF i < ahi /\ j < bhi /\ a[i + 1] = b[j + 1] /\ b[j + 1] \notin popular
  THEN 1 + match_len_indexed(a, b, popular, i + 1, j + 1, ahi, bhi)
  ELSE 0

\* find_longest_match, the first extension: the match grows to the left
\* while the elements before it are equal.
RECURSIVE extend_left(_, _, _, _, _)
extend_left(a, b, m, alo, blo) ==
  IF m.a > alo /\ m.b > blo /\ a[m.a] = b[m.b]
  THEN extend_left(a, b, [a |-> m.a - 1, b |-> m.b - 1, size |-> m.size + 1], alo, blo)
  ELSE m

\* find_longest_match, the second extension: the match grows to the right
\* while the elements after it are equal.
RECURSIVE extend_right(_, _, _, _, _)
extend_right(a, b, m, ahi, bhi) ==
  IF m.a + m.size < ahi /\ m.b + m.size < bhi /\ a[m.a + m.size + 1] = b[m.b + m.size + 1]
  THEN extend_right(a, b, [m EXCEPT !.size = m.size + 1], ahi, bhi)
  ELSE m

\* SequenceMatcher.find_longest_match with autojunk: the longest block the
\* index finds, the earliest in a and then in b of the longest, or the empty
\* block at (alo, blo); then the two extensions.
find_longest_match_autojunk(a, b, popular, alo, ahi, blo, bhi) ==
  LET starts == (alo .. ahi - 1) \X (blo .. bhi - 1)
      len(s) == match_len_indexed(a, b, popular, s[1], s[2], ahi, bhi)
      bestsize == CHOOSE k \in {0} \cup {len(s) : s \in starts} :
                    \A s \in starts : len(s) <= k
      best == CHOOSE s \in starts :
                /\ len(s) = bestsize
                /\ \A t \in starts :
                     len(t) = bestsize =>
                       \/ s[1] < t[1]
                       \/ s[1] = t[1] /\ s[2] <= t[2]
      found == IF bestsize = 0 THEN [a |-> alo, b |-> blo, size |-> 0]
               ELSE [a |-> best[1], b |-> best[2], size |-> bestsize] IN
  extend_right(a, b, extend_left(a, b, found, alo, blo), ahi, bhi)

\* get_matching_blocks over find_longest_match with autojunk.
RECURSIVE match_blocks_autojunk(_, _, _, _, _, _, _)
match_blocks_autojunk(a, b, popular, alo, ahi, blo, bhi) ==
  LET m == find_longest_match_autojunk(a, b, popular, alo, ahi, blo, bhi)
      i == m.a
      j == m.b
      k == m.size IN
  IF k = 0 THEN << >>
  ELSE (IF alo < i /\ blo < j THEN match_blocks_autojunk(a, b, popular, alo, i, blo, j)
        ELSE << >>)
       \o <<m>>
       \o (IF i + k < ahi /\ j + k < bhi
           THEN match_blocks_autojunk(a, b, popular, i + k, ahi, j + k, bhi)
           ELSE << >>)

\* get_opcodes of SequenceMatcher(None, a, b), autojunk on.
get_opcodes_autojunk(a, b) ==
  opcodes_from(collapse(match_blocks_autojunk(a, b, bpopular(b), 0, Len(a), 0, Len(b)),
                        [a |-> 0, b |-> 0, size |-> 0])
                 \o <<[a |-> Len(a), b |-> Len(b), size |-> 0]>>, 0, 0)

\* app.py compute_diff, the body of the loop.
app_opcode_segments(op, orig_words, enh_words) ==
  LET delete == [type |-> "delete", text |-> join(Slice(orig_words, op.i1, op.i2))]
      insert == [type |-> "insert", text |-> join(Slice(enh_words, op.j1, op.j2))] IN
  CASE op.tag = "equal" ->
         <<[type |-> "equal", text |-> join(Slice(orig_words, op.i1, op.i2))]>>
    [] op.tag = "insert" -> <<insert>>
    [] op.tag = "delete" -> <<delete>>
    [] op.tag = "replace" -> <<delete, insert>>

RECURSIVE app_segments_of(_, _, _)
app_segments_of(opcodes, orig_words, enh_words) ==
  IF opcodes = << >> THEN << >>
  ELSE app_opcode_segments(Head(opcodes), orig_words, enh_words)
       \o app_segments_of(Tail(opcodes), orig_words, enh_words)

\* app.py compute_diff
app_compute_diff(original, enhanced) ==
  LET orig_words == split(original)
      enh_words == split(enhanced) IN
  app_segments_of(get_opcodes_autojunk(orig_words, enh_words), orig_words, enh_words)

\* The characters of the small texts, and the small texts: every string of
\* at most MaxChars characters, and every sequence of at most MaxWords words
\* written with single spaces.
Alphabet == {"x", "y", " "}

CharTexts == SeqsUpTo(Alphabet, MaxChars)

Words == {<<"x">>, <<"y">>, <<"z">>}

WordTexts == {join(w) : w \in SeqsUpTo(Words, MaxWords)}

\* "The cat sat on the mat" and "The feline sat on the rug", a word as one
\* element.
TheCatSat == <<"The", " ", "cat", " ", "sat", " ", "on", " ", "the", " ", "mat">>

TheFelineSat == <<"The", " ", "feline", " ", "sat", " ", "on", " ", "the", " ", "rug">>

\* A short text and its long rewriting: "y x", and "z" followed by "x" over
\* and over, LongWords words in all.
ShortText == <<"y", " ", "x">>

LongText == join(<<<<"z">>>> \o [k \in 1 .. LongWords - 1 |-> <<"x">>])

\* The pairs given to compute_diff: two strings, two word sequences, the
\* two sentences, or the short text and its long rewriting.
TextPair(original, enhanced) ==
  \/ original \in CharTexts /\ enhanced \in CharTexts
  \/ original \in WordTexts /\ enhanced \in WordTexts
  \/ original = TheCatSat /\ enhanced = TheFelineSat
  \/ original = ShortText /\ enhanced = LongText

InitDiff ==
  /\ Quiet
  /\ \E original \in CharTexts \cup WordTexts \cup {TheCatSat, ShortText},
        enhanced \in CharTexts \cup WordTexts \cup {TheFelineSat, LongText},
        fn \in {"compute_diff", "app_compute_diff"} :
       /\ TextPair(original, enhanced)
       /\ call = [fn |-> fn, args |-> [original |-> original, enhanced |-> enhanced],
                  returned |-> FALSE, result |-> << >>]

Apply_compute_diff ==
  /\ call.fn = "compute_diff" /\ ~ call.returned
  /\ call' = [call EXCEPT !.returned = TRUE,
                          !.result = compute_diff(call.args.original, call.args.enhanced)]
  /\ UNCHANGED <<transactions, pay, variant, opening, balance, audit, documents, rq>>

Apply_app_compute_diff ==
  /\ call.fn = "app_compute_diff" /\ ~ call.returned
  /\ call' = [call EXCEPT !.returned = TRUE,
                          !.result = app_compute_diff(call.args.original, call.args.enhanced)]
  /\ UNCHANGED <<transactions, pay, variant, opening, balance, audit, documents, rq>>

NextDiff == Apply_compute_diff \/ Apply_app_compute_diff

SpecDiff == InitDiff /\ [][NextDiff]_vars

\* ------------------------------------------------------------- similarity
\* n / d rounded to the nearest integer, a half to the even one: round().
round_half_even(n, d) ==
  LET q == n \div d
      r == n % d IN
  IF 2 * r < d THEN q
  ELSE IF 2 * r > d THEN q + 1
  ELSE IF q % 2 = 0 THEN q ELSE q + 1

RECURSIVE sum_sizes(_)
sum_sizes(blocks) ==
  IF blocks = << >> THEN 0 ELSE Head(blocks).size + sum_sizes(Tail(blocks))

\* _calculate_ratio giving 0 for two empty sequences.
calculate_ratio_empty_zero(matches, length) ==
  IF length # 0 THEN [num |-> 2 * matches, den |-> length] ELSE [num |-> 0, den |-> 1]

\* difflib _calculate_ratio: 2.0 * matches / length, and 1.0 when length is
\* 0; the ratio as a fraction.
calculate_ratio(matches, length) ==
  IF length # 0 THEN [num |-> 2 * matches, den |-> length] ELSE [num |-> 1, den |-> 1]

\* SequenceMatcher.ratio over the characters of the two texts (shorter than
\* the 200 elements from which the junk heuristic applies).
ratio(a, b) == calculate_ratio(sum_sizes(get_matching_blocks(a, b)), Len(a) + Len(b))

\* app.py similarity_score: round(ratio * 100, 1), in tenths (1000 is 100.0).
similarity_score(original, enhanced) ==
  LET x == ratio(original, enhanced) IN round_half_even(x.num * 1000, x.den)

InitSim ==
  /\ Quiet
  /\ \E a \in CharTexts, b \in CharTexts :
       call = [fn |-> "similarity_score", args |-> [original |-> a, enhanced |-> b],
               returned |-> FALSE, result |-> 0]

Apply_similarity_score ==
  /\ call.fn = "similarity_score" /\ ~ call.returned
  /\ call' = [call EXCEPT !.returned = TRUE,
                          !.result = similarity_score(call.args.original, call.args.enhanced)]
  /\ UNCHANGED <<transactions, pay, variant, opening, balance, audit, documents, rq>>

NextSim == Apply_similarity_score

SpecSim == InitSim /\ [][NextSim]_vars

\* ---------------------------------------------------------------- entities
\* services/nlp.py ENTITY_TYPE_MAP.get(label): the node type, or None.
ENTITY_TYPE_MAP(label) ==
  CASE label = "PERSON" -> "character"
    [] label = "GPE" -> "location"
    [] label = "LOC" -> "location"
    [] label = "ORG" -> "character"
    [] label = "EVENT" -> "event"
    [] label = "WORK_OF_ART" -> "object"
    [] label = "FAC" -> "location"
    [] OTHER -> "None"

\* str.lower() on the characters of the mention texts.
lower_char(c) == CASE c = "A" -> "a" [] c = "B" -> "b" [] OTHER -> c

lower(text) == [k \in 1 .. Len(text) |-> lower_char(text[k])]

\* str.strip(): without its leading and trailing whitespace.
RECURSIVE lstrip(_)
lstrip(text) ==
  IF text # << >> /\ Head(text) \in Whitespace THEN lstrip(Tail(text)) ELSE text

RECURSIVE rstrip(_)
rstrip(text) ==
  IF text # << >> /\ text[Len(text)] \in Whitespace
  THEN rstrip(SubSeq(text, 1, Len(text) - 1)) ELSE text

strip(text) == rstrip(lstrip(text))

\* key.replace(" ", "_"): every space character becomes an underscore.
replace_space(key) == [k \in 1 .. Len(key) |-> IF key[k] = " " THEN "_" ELSE key[k]]

\* The position of the entity of a key in seen, or 0.
seen_index(seen, key) ==
  IF \E k \in 1 .. Len(seen) : seen[k].key = key
  THEN CHOOSE k \in 1 .. Len(seen) : seen[k].key = key
  ELSE 0

\* The loop of extract_entities with every mapped mention stored on its own.
RECURSIVE extract_entities_appending(_, _)
extract_entities_appending(seen, ents) ==
  IF ents = << >> THEN seen
  ELSE LET ent == Head(ents)
           entity_type == ENTITY_TYPE_MAP(ent.label_)
           key == lower(strip(ent.text)) IN
       IF entity_type = "None" THEN extract_entities_appending(seen, Tail(ents))
       ELSE extract_entities_appending(
              Append(seen, [key |-> key, id |-> replace_space(key), label |-> strip(ent.text),
                            type |-> entity_type, count |-> 1]),
              Tail(ents))

\* The loop of extract_entities over doc.ents; seen is the dictionary in
\* insertion order, each value with its key.
RECURSIVE extract_entities_loop(_, _)
extract_entities_loop(seen, ents) ==
  IF ents = << >> THEN seen
  ELSE LET ent == Head(ents)
           entity_type == ENTITY_TYPE_MAP(ent.label_)
           key == lower(strip(ent.text))
           label == strip(ent.text)
           at == seen_index(seen, key) IN
       IF entity_type = "None" THEN extract_entities_loop(seen, Tail(ents))
       ELSE IF at # 0
       THEN extract_entities_loop([seen EXCEPT ![at].count = @ + 1], Tail(ents))
       ELSE extract_entities_loop(
              Append(seen, [key |-> key, id |-> replace_space(key), label |-> label,
                            type |-> entity_type, count |-> 1]),
              Tail(ents))

\* list(seen.values())
values(seen) ==
  [k \in 1 .. Len(seen) |->
     [id |-> seen[k].id, label |-> seen[k].label, type |-> seen[k].type,
      count |-> seen[k].count]]

\* extract_entities without the dictionary: one entity per mapped mention.
extract_entities_without_seen(ents) == values(extract_entities_appending(<< >>, ents))

extract_entities(ents) == values(extract_entities_loop(<< >>, ents))

\* Mention texts as the recogniser gives them: spans of the text, with the
\* whitespace the text has inside them.
MentionTexts ==
  { <<"A", "l">>, <<"a", "l">>, <<"A", "l", " ">>, <<"A", " ", "l">>,
    <<"A", " ", " ", "l">>, <<"A", "\t", "l">>, <<"A", "_", "l">>, <<"B">> }

MentionLabels == {"PERSON", "GPE", "DATE"}

Mentions == [text : MentionTexts, label_ : MentionLabels]

InitNer ==
  /\ Quiet
  /\ \E e \in SeqsUpTo(Mentions, MaxMentions) :
       call = [fn |-> "extract_entities", args |-> [ents |-> e],
               returned |-> FALSE, result |-> << >>]

Apply_extract_entities ==
  /\ call.fn = "extract_entities" /\ ~ call.returned
  /\ call' = [call EXCEPT !.returned = TRUE, !.result = extract_entities(call.args.ents)]
  /\ UNCHANGED <<transactions, pay, variant, opening, balance, audit, documents, rq>>

NextNer == Apply_extract_entities

SpecNer == InitNer /\ [][NextNer]_vars

\* --------------------------------------------------------------- documents
\* get_document: ObjectId(doc_id) raises on a string that is not an
\* ObjectId; find_one gives the document or None.
get_document(docs, doc_id) ==
  IF doc_id \notin ObjectIds
  THEN [raised |-> TRUE, found |-> FALSE, doc |-> << >>]
  ELSE IF \E k \in 1 .. Len(docs) : docs[k]._id = doc_id
       THEN [raised |-> FALSE, found |-> TRUE,
             doc |-> docs[CHOOSE k \in 1 .. Len(docs) : docs[k]._id = doc_id]]
       ELSE [raised |-> FALSE, found |-> FALSE, doc |-> << >>]

DocumentNotFound == [status |-> 404, body |-> [error |-> "Document not found"]]

\* The framework's answer to an exception no handler catches.
InternalServerError == [status |-> 500, body |-> [error |-> "Internal Server Error"]]

get_doc(docs, user_id, doc_id) ==
  LET d == get_document(docs, doc_id) IN
  IF d.raised THEN InternalServerError
  ELSE IF ~ d.found \/ d.doc.user_id # user_id THEN DocumentNotFound
  ELSE [status |-> 200, body |-> d.doc]

Contents == {"p", "q"}

StoredDocument(k) == [_id : {ObjectIdAt(k)}, user_id : Users, req : {0}, content : Contents]

InitDoc ==
  /\ NoPayments
  /\ balance = 0 /\ opening = 0 /\ variant = "legacy"
  /\ audit = << >>
  /\ rq = [r \in Req |-> Idle]
  /\ \E n \in 0 .. MaxDocs :
       /\ documents \in [1 .. n -> UNION {StoredDocument(k) : k \in 1 .. MaxDocs}]
       /\ \A k \in 1 .. n : documents[k]._id = ObjectIdAt(k)
  /\ \E u \in Users, d \in ObjectIds \cup {Malformed} :
       call = [fn |-> "get_doc", args |-> [user_id |-> u, doc_id |-> d],
               returned |-> FALSE, result |-> << >>]

Apply_get_doc ==
  /\ call.fn = "get_doc" /\ ~ call.returned
  /\ call' = [call EXCEPT !.returned = TRUE,
                          !.result = get_doc(documents, call.args.user_id, call.args.doc_id)]
  /\ UNCHANGED <<transactions, pay, variant, opening, balance, audit, documents, rq>>

NextDoc == Apply_get_doc

SpecDoc == InitDoc /\ [][NextDoc]_vars

\* ---------------------------------------------------------------- payments
SetPay(p, q) == pay' = [pay EXCEPT ![p] = q]

EndPay(q, status) == [q EXCEPT !.pc = "done", !.status = status]

\* A verify-payment call of the caller, or a webhook delivery of the
\* provider, arrives.
BeginPay(p) ==
  /\ pay[p].pc = "idle"
  /\ IF p = 1 THEN TRUE ELSE pay[p - 1].pc # "idle"
  /\ \/ \E i \in PaymentIntents \cup {"pi_0"} :
          SetPay(p, [IdlePay EXCEPT !.kind = "verify_payment", !.intent = i,
                                    !.pc = "retrieve"])
     \/ \E i \in PaymentIntents :
          SetPay(p, [IdlePay EXCEPT !.kind = "stripe_webhook", !.intent = i,
                                    !.pc = "construct"])
  /\ UNCHANGED <<transactions, call, variant, opening, balance, audit, documents, rq>>

\* verify_payment that takes the caller's word for the payment.
verify_payment_retrieve_trusting(p) ==
  LET q == pay[p] IN
  /\ q.kind = "verify_payment" /\ q.pc = "retrieve"
  /\ \E o \in IF q.intent \in PaymentIntents
              THEN {"raise", "processing", "succeeded"} ELSE {"raise"} :
       SetPay(p, IF o = "raise" THEN EndPay(q, 400)
                 ELSE IF IntentUser(q.intent) # Caller
                 THEN EndPay([q EXCEPT !.intent_status = o], 403)
                 ELSE [q EXCEPT !.intent_status = o, !.pc = "fetch"])
  /\ UNCHANGED <<transactions, call, variant, opening, balance, audit, documents, rq>>

\* verify_payment, lines 90-103: PaymentIntent.retrieve, which raises for
\* an id the provider does not know (or when the provider cannot be
\* reached), the status check and the ownership check.
verify_payment_retrieve(p) ==
  LET q == pay[p] IN
  /\ q.kind = "verify_payment" /\ q.pc = "retrieve"
  /\ \E o \in IF q.intent \in PaymentIntents
              THEN {"raise", "processing", "succeeded"} ELSE {"raise"} :
       SetPay(p, IF o = "raise" THEN EndPay(q, 400)
                 ELSE IF o # "succeeded" THEN EndPay([q EXCEPT !.intent_status = o], 400)
                 ELSE IF IntentUser(q.intent) # Caller
                 THEN EndPay([q EXCEPT !.intent_status = o], 403)
                 ELSE [q EXCEPT !.intent_status = o, !.pc = "fetch"])
  /\ UNCHANGED <<transactions, call, variant, opening, balance, audit, documents, rq>>

\* verify_payment, lines 105-122: the pending transaction of this intent
\* and this user.  Without such a row single() gives no data or raises,
\* by the version of the client: 400 or 500.
verify_payment_fetch(p) ==
  LET q == pay[p]
      tx == transactions[q.intent] IN
  /\ q.kind = "verify_payment" /\ q.pc = "fetch"
  /\ IF tx.status = "pending" /\ tx.user_id = Caller
     THEN SetPay(p, [q EXCEPT !.saw = tx.status, !.credits = tx.credits_purchased,
                              !.pc = "add"])
     ELSE \E status \in {400, 500} : SetPay(p, EndPay([q EXCEPT !.saw = tx.status], status))
  /\ UNCHANGED <<transactions, call, variant, opening, balance, audit, documents, rq>>

\* add_credits(user_id, credits): the balance of the caller is the one the
\* model keeps.
payment_add_credits(p) ==
  LET q == pay[p] IN
  /\ q.pc = "add"
  /\ balance' = IF IntentUser(q.intent) = Caller THEN balance + q.credits ELSE balance
  /\ SetPay(p, [q EXCEPT !.added = q.credits, !.pc = "mark"])
  /\ UNCHANGED <<transactions, call, variant, opening, audit, documents, rq>>

\* update({"status": "success"}) of the transaction, then the answer; a
\* write that the store does not take raises, and the call ends 500.
payment_mark_success(p) ==
  LET q == pay[p] IN
  /\ q.pc = "mark"
  /\ \E ok \in BOOLEAN :
       IF ok
       THEN /\ transactions' = [transactions EXCEPT ![q.intent].status =
                                  IF @ = "absent" THEN @ ELSE "success"]
            /\ SetPay(p, EndPay([q EXCEPT !.marked = TRUE], 200))
       ELSE /\ transactions' = transactions
            /\ SetPay(p, EndPay(q, 500))
  /\ UNCHANGED <<call, variant, opening, balance, audit, documents, rq>>

\* stripe_webhook, lines 143-155: the signature check, the event type and
\* the metadata of the intent.
stripe_webhook_construct(p) ==
  LET q == pay[p] IN
  /\ q.kind = "stripe_webhook" /\ q.pc = "construct"
  /\ \E o \in {"invalid", "other", "payment_intent.succeeded"} :
       SetPay(p, CASE o = "invalid" -> EndPay(q, 400)
                   [] o = "other" -> EndPay(q, 200)
                   [] OTHER -> [q EXCEPT !.intent_status = "succeeded",
                                         !.credits = STARTER_CREDITS, !.pc = "fetch"])
  /\ UNCHANGED <<transactions, call, variant, opening, balance, audit, documents, rq>>

\* stripe_webhook, lines 157-166: the status of the transaction of the
\* intent.  Without a row single() gives no data (200) or raises (500).
stripe_webhook_fetch(p) ==
  LET q == pay[p]
      tx == transactions[q.intent] IN
  /\ q.kind = "stripe_webhook" /\ q.pc = "fetch"
  /\ CASE tx.status = "pending" -> SetPay(p, [q EXCEPT !.saw = tx.status, !.pc = "add"])
       [] tx.status = "success" -> SetPay(p, EndPay([q EXCEPT !.saw = tx.status], 200))
       [] OTHER -> \E status \in {200, 500} :
                     SetPay(p, EndPay([q EXCEPT !.saw = tx.status], status))
  /\ UNCHANGED <<transactions, call, variant, opening, balance, audit, documents, rq>>

PayStep(p) ==
  \/ verify_payment_retrieve(p)
  \/ verify_payment_fetch(p)
  \/ stripe_webhook_construct(p)
  \/ stripe_webhook_fetch(p)
  \/ payment_add_credits(p)
  \/ payment_mark_success(p)

InitPay ==
  /\ call = NoCall
  /\ balance \in 0 .. MaxBalance
  /\ opening = balance
  /\ variant = "layered"
  /\ audit = << >> /\ documents = << >>
  /\ rq = [r \in Req |-> Idle]
  /\ transactions \in [PaymentIntents -> UNION {TransactionRows(i) : i \in PaymentIntents}]
  /\ \A i \in PaymentIntents : transactions[i].user_id = IntentUser(i)
  /\ pay = [p \in Pay |-> IdlePay]

\* Verify-payment calls and webhook deliveries, served concurrently.
NextPay == \E p \in Pay : BeginPay(p) \/ PayStep(p)

SpecPay == InitPay /\ [][NextPay]_vars

\* One verify-payment call or webhook delivery.
NextPayOne == BeginPay(1) \/ \E p \in Pay : PayStep(p)

SpecPayOne == InitPay /\ [][NextPayOne]_vars

\* ------------------------------------------------------------------ claims
\* How a finished request was reported to its caller.  The streaming route
\* has answered 200 before its generator runs: its report is the terminal
\* event.
Succeeded(q) ==
  /\ q.pc = "done"
  /\ q.status = 200
  /\ q.h = "enhance" => q.event = "final"

Failed(q) ==
  /\ q.pc = "done"
  /\ \/ q.status \in {400, 402, 422, 500}
     \/ q.h = "enhance" /\ q.event = "error"

\* The change one request made to the balance.
Net(q) == (q.refunds - q.debits) * Cost(q.h) + q.added

NoEffect(q) ==
  /\ q.debits = 0 /\ q.refunds = 0 /\ q.added = 0
  /\ q.llm = 0 /\ q.ner = 0
  /\ q.logged = 0 /\ q.docs = 0

\* C1: ledger atomicity.  When all N requests are reserve attempts of the
\* same cost C against an opening balance of C*(N-1)+1, and nothing but
\* their reservations has touched the balance, exactly N-1 of them succeeded
\* and exactly one was refused.  Stated for C >= 2: a balance of C*(N-1)+1
\* covers all N reservations when C = 1.
C1_LedgerAtomicity ==
  LET c == Cost(rq[1].h) IN
  ( /\ \A r \in Req : /\ rq[r].h \in Metered
                      /\ Cost(rq[r].h) = c
                      /\ rq[r].refused \/ rq[r].debits = 1
                      /\ rq[r].refunds = 0
    /\ c >= 2
    /\ opening = c * (NumReq - 1) + 1 )
  => /\ Cardinality({r \in Req : rq[r].debits = 1}) = NumReq - 1
     /\ Cardinality({r \in Req : rq[r].refused}) = 1

\* C2: the balance is never negative.
C2_BalanceNonNegative == balance >= 0

\* C3: refund conservation.  A metered request reported successful changed
\* the balance by exactly -cost; one reported failed changed it by 0.
C3_RefundConservation ==
  \A r \in Req :
    LET q == rq[r] IN
    q.h \in Metered =>
      /\ Succeeded(q) => Net(q) = - Cost(q.h)
      /\ Failed(q) => Net(q) = 0

\* C4: audit consistency.  Every audit record belongs to a request that was
\* debited and has not been refunded.
C4_AuditConsistency ==
  \A k \in 1 .. Len(audit) :
    LET q == rq[audit[k].req] IN
    q.debits = 1 /\ q.refunds = 0

\* C5: a request that was debited and then failed on a collaborator error,
\* a JSON parse error or a balance read, before any audit record of it was
\* written, was refunded exactly once.
C5_ExactlyOneRefund ==
  \A r \in Req :
    LET q == rq[r] IN
    ( /\ q.pc = "done"
      /\ q.debits = 1
      /\ q.logged = 0
      /\ q.fail \in {"collab_error", "unparseable", "balance_read"} )
    => q.refunds = 1

\* C6: a refused reservation ends in a 402 answer, and the request has made
\* no collaborator call, debit, refund, audit record or document.
C6_InsufficientCredits ==
  \A r \in Req :
    LET q == rq[r] IN
    q.refused =>
      /\ NoEffect(q)
      /\ q.pc = "done" => q.status = 402

\* C7: ordering within a request.  A collaborator call happens only after
\* the debit; an audit record is written only when the collaborator was
\* called and returned parseable output; a refund is issued only after a
\* downstream failure (collaborator error, unusable output, render failure).
C7_RequestOrdering ==
  \A r \in Req :
    LET q == rq[r] IN
    /\ (q.llm > 0 \/ q.ner > 0) => q.debits = 1
    /\ q.logged > 0 => q.llm > 0 /\ ~ q.unparseable
    /\ q.refunds > 0 => q.fail \in {"collab_error", "unparseable", "badshape", "render"}

\* C8: a failed audit write is soft.  The request whose audit write failed
\* is reported successful, is not refunded and stays charged.
C8_LoggingFailureSoft ==
  \A r \in Req :
    LET q == rq[r] IN
    q.fail = "audit_write" =>
      /\ q.pc # "refund" /\ q.refunds = 0
      /\ q.pc = "done" => Succeeded(q) /\ Net(q) = - Cost(q.h)

\* C9: a request whose collaborator returned text that is not JSON goes on
\* to nothing but its refund, writes no audit record, and ends refunded and
\* reported failed.
C9_UnparseableIsFailure ==
  \A r \in Req :
    LET q == rq[r] IN
    q.unparseable =>
      /\ q.pc \in {"refund", "done"}
      /\ q.logged = 0
      /\ q.pc = "done" => q.refunds = 1 /\ Failed(q)

\* The bodies C10 names, by handler.  The legacy routes measure the stripped
\* text, the request schemas of the layered routes the raw string.
MeasuredText(h, b) == IF h \in LayeredMetered THEN b.text ELSE Strip(b.text)

EmptyText(h, b) == TextLen(MeasuredText(h, b)) = 0

OverLength(h, b) ==
  \/ h = "persona_enhance" /\ TextLen(MeasuredText(h, b)) > PERSONA_TEXT_MAX
  \/ h \in {"generate_mindmap_route", "mindmap_image_route"}
       /\ TextLen(MeasuredText(h, b)) > MINDMAP_TEXT_MAX
  \/ h = "enhance" /\ TextLen(MeasuredText(h, b)) > ENHANCE_TEXT_MAX
  \/ h \in {"consistency", "mindmap", "evolution"}
       /\ TextLen(MeasuredText(h, b)) > SCHEMA_TEXT_MAX

TooShort(h, b) ==
  \/ h \in {"generate_mindmap_route", "mindmap_image_route"}
       /\ TextLen(MeasuredText(h, b)) < MINDMAP_TEXT_MIN
  \/ h = "story_complete" /\ TextLen(MeasuredText(h, b)) < STORY_TEXT_MIN
  \/ h \in LayeredMetered /\ TextLen(MeasuredText(h, b)) < SCHEMA_TEXT_MIN

UnknownPersona(h, b) ==
  /\ h \in {"persona_enhance", "enhance"}
  /\ b.persona # Absent
  /\ b.persona \notin {"technical", "business", "finance", "simplified", "comedian", "poet"}

MissingName(h, b) == h \in {"character_evolution", "evolution"} /\ b.name = 0

InvalidBody(h, b) ==
  \/ EmptyText(h, b)
  \/ OverLength(h, b)
  \/ TooShort(h, b)
  \/ UnknownPersona(h, b)
  \/ MissingName(h, b)

\* C10: a metered request whose body is invalid (empty, over-long or too
\* short text, unknown persona, missing character name) never gets past
\* validation: it attempts no reservation, makes no collaborator call, debit,
\* refund, audit record or document, and ends in a validation error; while
\* it is the only request, balance, audit log and documents are as they were.
C10_ValidationBeforeReservation ==
  \A r \in Req :
    LET q == rq[r] IN
    (q.h \in Metered /\ InvalidBody(q.h, q.in)) =>
      /\ q.pc \in {"validate", "done"}
      /\ NoEffect(q) /\ ~ q.refused
      /\ q.pc = "done" => q.status \in {400, 422}
      /\ (\A o \in Req \ {r} : rq[o].pc = "idle") =>
           balance = opening /\ audit = << >> /\ documents = << >>

\* C10 witness: a request with an invalid body has been answered.
C10_Rejected ==
  \E r \in Req :
    /\ rq[r].h \in Metered
    /\ InvalidBody(rq[r].h, rq[r].in)
    /\ rq[r].pc = "done"
    /\ rq[r].status \in {400, 422}

\* The tokens of the token events of a stream, in the order they were sent.
SentTokens(events) ==
  LET t == SelectSeq(events, LAMBDA e : ~ e.done) IN
  [k \in 1 .. Len(t) |-> t[k].token]

\* The non-empty deltas of the collaborator, in the order it generated them.
GeneratedTokens(chunks) == SelectSeq(chunks, LAMBDA c : c # 0)

C12_DisconnectKeepsCharge ==
  \A r \in Req :
    LET q == rq[r] IN
    (q.h = "enhance" /\ q.fail = "cancelled") =>
      /\ q.pc = "done"
      /\ q.debits = 1 /\ q.refunds = 0 /\ q.logged = 0
      /\ Net(q) = - Cost(q.h)
      /\ \A k \in 1 .. Len(q.events) : ~ q.events[k].done
      /\ (\A o \in Req \ {r} : rq[o].pc = "idle") =>
           balance = opening - Cost(q.h) /\ audit = << >>

\* C12 witness: a stream cancelled after it had sent a token.
C12_Disconnected ==
  \E r \in Req :
    /\ rq[r].h = "enhance" /\ rq[r].pc = "done" /\ rq[r].fail = "cancelled"
    /\ Len(rq[r].events) >= 1

\* C13: a reserved request whose collaborator and store calls all returned
\* (it ended normally or on a collaborator error, unparseable output or
\* output of another shape) ended either Completed (audit record written,
\* no refund) or Refunded (refund issued, no record).
C13_CompletedOrRefunded ==
  \A r \in Req :
    LET q == rq[r] IN
    ( /\ q.h \in Metered /\ q.pc = "done" /\ q.debits = 1
      /\ q.fail \in {"none", "collab_error", "unparseable", "badshape"} ) =>
      \/ q.logged = 1 /\ q.refunds = 0
      \/ q.refunds = 1 /\ q.logged = 0

\* The ids of the nodes of a graph.
NodeIds(g) == {g.nodes[k].id : k \in 1 .. Len(g.nodes)}

\* C14: graph edge integrity.  In every graph returned by build_graph (on
\* its normal path or through its zero-entity fallback) or by the legacy
\* generate_mindmap, the source and the target of every edge are ids of
\* returned nodes.
C14_EdgeIntegrity ==
  (call.fn \in {"build_graph", "generate_mindmap"} /\ call.returned) =>
    \A k \in 1 .. Len(call.result.edges) :
      /\ call.result.edges[k].source \in NodeIds(call.result)
      /\ call.result.edges[k].target \in NodeIds(call.result)

\* The contents of the segments of the given types, in order.
RECURSIVE contents_of(_, _)
contents_of(segments, types) ==
  IF segments = << >> THEN << >>
  ELSE (IF Head(segments).type \in types THEN <<Head(segments).content>> ELSE << >>)
       \o contents_of(Tail(segments), types)

\* A text in which whitespace is only single spaces between words.
Normalised(text) ==
  \A k \in 1 .. Len(text) :
    text[k] \in Whitespace =>
      /\ text[k] = " "
      /\ 1 < k /\ k < Len(text)
      /\ text[k + 1] \notin Whitespace

\* C15 as stated: the contents of the unchanged and removed segments,
\* concatenated in order (directly, or with single spaces between them),
\* are A, and those of the unchanged and added segments are B.
C15_RoundTrip ==
  (call.fn = "compute_diff" /\ call.returned) =>
    LET a == contents_of(call.result, {"unchanged", "removed"})
        b == contents_of(call.result, {"unchanged", "added"}) IN
    /\ call.args.original \in {join_tight(a), join(a)}
    /\ call.args.enhanced \in {join_tight(b), join(b)}

\* C15: diff round trip up to whitespace.  The contents of the unchanged and
\* removed segments, joined in order by single spaces, are the words of A
\* joined by single spaces, and those of the unchanged and added segments
\* the words of B joined by single spaces.
C15_RoundTripOfWords ==
  (call.fn = "compute_diff" /\ call.returned) =>
    /\ join(contents_of(call.result, {"unchanged", "removed"})) = join(split(call.args.original))
    /\ join(contents_of(call.result, {"unchanged", "added"})) = join(split(call.args.enhanced))

\* C15 witness: a diff with a deletion whose original is not written with
\* single spaces.
C15_IrregularOriginal ==
  /\ call.fn = "compute_diff" /\ call.returned
  /\ ~ Normalised(call.args.original)
  /\ \E k \in 1 .. Len(call.result) : call.result[k].type = "removed"
  /\ \E k \in 1 .. Len(call.result) : call.result[k].type = "unchanged"

\* C16 as stated: for every non-empty A, compute_diff(A, A) is one
\* unchanged segment whose content is A.
C16_Identity ==
  (call.fn = "compute_diff" /\ call.returned
     /\ call.args.original = call.args.enhanced /\ call.args.original # << >>) =>
    call.result = <<[type |-> "unchanged", content |-> call.args.original]>>

\* C16: diff identity.  For every A with at least one word, compute_diff(A, A)
\* is one unchanged segment whose content is the words of A joined by single
\* spaces, which is A itself when A is written with single spaces; for an A
\* of whitespace only it is the empty sequence.
C16_IdentityOfWords ==
  (call.fn = "compute_diff" /\ call.returned /\ call.args.original = call.args.enhanced) =>
    LET A == call.args.original IN
    /\ split(A) # << >> =>
         /\ Len(call.result) = 1
         /\ call.result[1].type = "unchanged"
         /\ call.result[1].content = join(split(A))
         /\ Normalised(A) => call.result[1].content = A
    /\ split(A) = << >> => call.result = << >>

\* C16 witness: the diff of a text of two words with itself.
C16_SameText ==
  /\ call.fn = "compute_diff" /\ call.returned
  /\ call.args.original = call.args.enhanced
  /\ Len(split(call.args.original)) >= 2
  /\ Normalised(call.args.original)

\* The number of replacements among the first n opcodes.
RECURSIVE replacements(_, _)
replacements(opcodes, n) ==
  IF n = 0 THEN 0
  ELSE replacements(opcodes, n - 1) + (IF opcodes[n].tag = "replace" THEN 1 ELSE 0)

\* C17: the segments are those of the alignment opcodes in opcode order: one
\* unchanged segment for an equal run, one added for an insertion, one
\* removed for a deletion, and for a replacement two adjacent segments,
\* removed then added, each with its side's words joined by single spaces;
\* no added segment is immediately followed by a removed one.
C17_OpcodeOrder ==
  (call.fn = "compute_diff" /\ call.returned) =>
    LET a == split(call.args.original)
        b == split(call.args.enhanced)
        ops == get_opcodes(a, b)
        segs == call.result
        at(k) == k + replacements(ops, k - 1)
        removed(op) == [type |-> "removed", content |-> join(Slice(a, op.i1, op.i2))]
        added(op) == [type |-> "added", content |-> join(Slice(b, op.j1, op.j2))] IN
    /\ Len(segs) = Len(ops) + replacements(ops, Len(ops))
    /\ \A k \in 1 .. Len(ops) :
         CASE ops[k].tag = "equal" ->
                segs[at(k)] = [type |-> "unchanged", content |-> join(Slice(a, ops[k].i1, ops[k].i2))]
           [] ops[k].tag = "insert" -> segs[at(k)] = added(ops[k])
           [] ops[k].tag = "delete" -> segs[at(k)] = removed(ops[k])
           [] ops[k].tag = "replace" ->
                segs[at(k)] = removed(ops[k]) /\ segs[at(k) + 1] = added(ops[k])
    /\ \A k \in 1 .. Len(segs) - 1 :
         segs[k].type = "added" => segs[k + 1].type # "removed"

\* C17 witness: a diff with a replacement between two unchanged runs.
C17_ReplacementInside ==
  /\ call.fn = "compute_diff" /\ call.returned
  /\ \E k \in 1 .. Len(call.result) - 3 :
       /\ call.result[k].type = "unchanged"
       /\ call.result[k + 1].type = "removed"
       /\ call.result[k + 2].type = "added"
       /\ call.result[k + 3].type = "unchanged"

\* C18 as stated: compute_diff("", B) for non-empty B is one added segment
\* with all of B (its words), compute_diff(A, "") for non-empty A one
\* removed segment with all of A, and compute_diff("", "") is empty.
C18_EdgeCases ==
  (call.fn = "compute_diff" /\ call.returned) =>
    LET A == call.args.original
        B == call.args.enhanced IN
    /\ (A = << >> /\ B # << >>) =>
         call.result = <<[type |-> "added", content |-> join(split(B))]>>
    /\ (B = << >> /\ A # << >>) =>
         call.result = <<[type |-> "removed", content |-> join(split(A))]>>
    /\ (A = << >> /\ B = << >>) => call.result = << >>

\* C18: diff edge cases.  compute_diff("", B) for a B with at least one word
\* is one added segment holding the words of B joined by single spaces;
\* compute_diff(A, "") for an A with at least one word is one removed
\* segment holding the words of A; when neither text has a word (both
\* empty, or whitespace only) the result is the empty sequence.
C18_EdgeCasesOfWords ==
  (call.fn = "compute_diff" /\ call.returned) =>
    LET A == call.args.original
        B == call.args.enhanced IN
    /\ (A = << >> /\ split(B) # << >>) =>
         call.result = <<[type |-> "added", content |-> join(split(B))]>>
    /\ (B = << >> /\ split(A) # << >>) =>
         call.result = <<[type |-> "removed", content |-> join(split(A))]>>
    /\ (split(A) = << >> /\ split(B) = << >>) => call.result = << >>

\* C18 witness: the diff of the empty text with a text of two words.
C18_EmptyOriginal ==
  /\ call.fn = "compute_diff" /\ call.returned
  /\ call.args.original = << >>
  /\ Len(split(call.args.enhanced)) >= 2
  /\ Len(call.result) = 1

\* C19: compute_diff("The cat sat on the mat", "The feline sat on the rug")
\* is unchanged "The", removed "cat", added "feline", unchanged "sat on the",
\* removed "mat", added "rug".
C19_TheCatSat ==
  (call.fn = "compute_diff" /\ call.returned
     /\ call.args.original = TheCatSat /\ call.args.enhanced = TheFelineSat) =>
    call.result = <<[type |-> "unchanged", content |-> <<"The">>],
                    [type |-> "removed", content |-> <<"cat">>],
                    [type |-> "added", content |-> <<"feline">>],
                    [type |-> "unchanged", content |-> <<"sat", " ", "on", " ", "the">>],
                    [type |-> "removed", content |-> <<"mat">>],
                    [type |-> "added", content |-> <<"rug">>]>>

\* C19 witness: that diff has been computed.
C19_TheCatSatDone ==
  /\ call.fn = "compute_diff" /\ call.returned
  /\ call.args.original = TheCatSat /\ call.args.enhanced = TheFelineSat
  /\ Len(call.result) = 6

\* C20: similarity bounds.  similarity_score(A, B) is between 0 and 100;
\* similarity_score(A, A) is 100.0, also for the empty A, where no division
\* by zero happens.  (The score is held in tenths.)
C20_SimilarityBounds ==
  (call.fn = "similarity_score" /\ call.returned) =>
    /\ 0 <= call.result /\ call.result <= 1000
    /\ call.args.original = call.args.enhanced => call.result = 1000

\* C20 witness: the similarity of the empty text with itself.
C20_BothEmpty ==
  /\ call.fn = "similarity_score" /\ call.returned
  /\ call.args.original = << >> /\ call.args.enhanced = << >>
  /\ call.result = 1000

\* C21 as stated: the legacy persona-enhance entry point processes a request
\* whose persona key is outside the six personas (it attempts the
\* reservation of 1 credit), and the layered entry point rejects it before
\* any reservation.
C21_PersonaByVariant ==
  \A r \in Req :
    LET q == rq[r] IN
    /\ ( /\ q.h = "persona_enhance" /\ q.pc = "done"
         /\ UnknownPersona(q.h, q.in)
         /\ ~ EmptyText(q.h, q.in) /\ ~ OverLength(q.h, q.in) ) =>
         q.debits = 1 \/ q.refused
    /\ (q.h = "enhance" /\ UnknownPersona(q.h, q.in)) => NoEffect(q) /\ ~ q.refused

\* C21: both entry points reject a persona key outside the six personas
\* before any reservation (the legacy one with 400, the layered one with
\* 422) and without any effect; the legacy entry point uses the simplified
\* persona only for a request that has no persona field, which the layered
\* entry point rejects as well.
C21_UnknownPersonaRejected ==
  \A r \in Req :
    LET q == rq[r] IN
    /\ (q.h \in {"persona_enhance", "enhance"} /\ UnknownPersona(q.h, q.in)) =>
         /\ q.pc \in {"validate", "done"}
         /\ NoEffect(q) /\ ~ q.refused
         /\ q.pc = "done" => q.status = (IF q.h = "persona_enhance" THEN 400 ELSE 422)
    /\ (q.h = "enhance" /\ q.in.persona = Absent) =>
         /\ q.pc \in {"validate", "done"}
         /\ NoEffect(q) /\ ~ q.refused
    /\ ( /\ q.h = "persona_enhance" /\ q.in.persona = Absent
         /\ ~ EmptyText(q.h, q.in) /\ ~ OverLength(q.h, q.in)
         /\ q.pc \notin {"idle", "validate"} ) =>
         /\ q.fail # "unknown_persona"
         /\ \A k \in 1 .. Len(audit) :
              audit[k].req = r =>
                /\ audit[k].persona = "simplified"
                /\ enhance_with_persona_persona(persona_key(q.in)) = "simplified"

\* C21 witness: a legacy request without a persona field was served and
\* logged.
C21_DefaultedPersona ==
  \E r \in Req :
    /\ rq[r].h = "persona_enhance" /\ rq[r].in.persona = Absent
    /\ Succeeded(rq[r]) /\ rq[r].debits = 1
    /\ \E k \in 1 .. Len(audit) : audit[k].req = r /\ audit[k].persona = "simplified"

\* C22: get_doc returns a document's content only when the document exists
\* and belongs to the caller; for an absent document or one of another user
\* the answer is the same not-found error, with no content.
C22_OwnershipRead ==
  (call.fn = "get_doc" /\ call.returned) =>
    LET owned == \E k \in 1 .. Len(documents) :
                   /\ documents[k]._id = call.args.doc_id
                   /\ documents[k].user_id = call.args.user_id
    IN  /\ call.result.status = 200 =>
             /\ owned
             /\ \E k \in 1 .. Len(documents) : call.result.body = documents[k]
        /\ ~ owned => call.result = DocumentNotFound

\* C23: the themes returned by build_graph have at most 6 entries on every
\* path (normal and zero-entity fallback); they are the themes the
\* collaborator gave when it gave any (the first six of them), and the
\* heuristic themes are used only otherwise.
C23_ThemesCap ==
  (call.fn = "build_graph" /\ call.returned) =>
    LET supplied == IF call.args.reply.parsed THEN call.args.reply.themes ELSE << >>
        heuristic == extract_themes_heuristic(call.args.score) IN
    /\ Len(call.result.themes) <= 6
    /\ supplied # << >> => call.result.themes = Take(supplied, 6)
    /\ (supplied = << >> /\ call.args.raw_entities # << >>) => call.result.themes = heuristic

\* The mentions whose type is in the type map, and their normalized labels.
MappedMentions(ents) == SelectSeq(ents, LAMBDA ent : ENTITY_TYPE_MAP(ent.label_) # "None")

Normalized(text) == lower(strip(text))

RECURSIVE SumCounts(_)
SumCounts(entities) ==
  IF entities = << >> THEN 0 ELSE Head(entities).count + SumCounts(Tail(entities))

\* C24: extract_entities returns exactly one entity per distinct normalized
\* label (stripped, lowercased) among the mapped mentions; the count of an
\* entity is the number of mapped mentions of its normalized label, so the
\* counts sum to the number of mapped mentions.
C24_EntityDeduplication ==
  (call.fn = "extract_entities" /\ call.returned) =>
    LET mapped == MappedMentions(call.args.ents)
        keys == {Normalized(mapped[k].text) : k \in 1 .. Len(mapped)}
        res == call.result IN
    /\ \A j, k \in 1 .. Len(res) : Normalized(res[j].label) = Normalized(res[k].label) => j = k
    /\ {Normalized(res[k].label) : k \in 1 .. Len(res)} = keys
    /\ \A k \in 1 .. Len(res) :
         res[k].count =
           Cardinality({j \in 1 .. Len(mapped) :
                          Normalized(mapped[j].text) = Normalized(res[k].label)})
    /\ SumCounts(res) = Len(mapped)

\* C24 witness: two mentions written differently were counted on one entity.
C24_RepeatedMention ==
  /\ call.fn = "extract_entities" /\ call.returned
  /\ Len(call.args.ents) >= 2
  /\ call.args.ents[1].text # call.args.ents[2].text
  /\ \E k \in 1 .. Len(call.result) : call.result[k].count >= 2

\* Every maximal run of whitespace replaced by one underscore.
RECURSIVE collapse_whitespace(_)
collapse_whitespace(text) ==
  IF text = << >> THEN << >>
  ELSE IF Head(text) \in Whitespace
  THEN <<"_">> \o collapse_whitespace(lstrip(text))
  ELSE <<Head(text)>> \o collapse_whitespace(Tail(text))

\* C25: the id of every entity returned by extract_entities is its label
\* lowercased with every internal run of whitespace collapsed to a single
\* underscore; no id contains whitespace.
C25_EntityId ==
  (call.fn = "extract_entities" /\ call.returned) =>
    \A k \in 1 .. Len(call.result) :
      /\ call.result[k].id = collapse_whitespace(lower(call.result[k].label))
      /\ \A j \in 1 .. Len(call.result[k].id) : call.result[k].id[j] \notin Whitespace

\* C26: a request to a handler that returns credits_remaining which
\* succeeded, with no other operation on the balance between its start and
\* its end, returned the balance before it minus its cost.
C26_PostOperationBalance ==
  \A r \in Req :
    LET q == rq[r] IN
    ( /\ Succeeded(q) /\ q.h \in LayeredMetered
      /\ \A o \in Req \ {r} : rq[o].pc = "idle" ) =>
      q.remaining = opening - Cost(q.h)

\* C26 witness: a request served alone has returned its balance.
C26_ServedAlone ==
  \E r \in Req :
    /\ Succeeded(rq[r]) /\ rq[r].h \in LayeredMetered
    /\ \A o \in Req \ {r} : rq[o].pc = "idle"
    /\ rq[r].remaining = opening - Cost(rq[r].h) /\ rq[r].remaining = balance

\* The audit records of a request.
RecordsOf(r) == {k \in 1 .. Len(audit) : audit[k].req = r}

\* C27: every metered request reported successful has appended exactly one
\* audit record, and the audit log is append-only: every step leaves the
\* records it had in place and unchanged.
C27_AuditAppendOnly ==
  /\ [](\A r \in Req :
          (Succeeded(rq[r]) /\ rq[r].h \in Metered) =>
            Cardinality(RecordsOf(r)) = 1 /\ rq[r].logged = 1)
  /\ [][Len(audit') >= Len(audit) /\ SubSeq(audit', 1, Len(audit)) = audit]_vars

\* C27 witness: a request succeeded and the log has its record after the
\* record that was there before.
C27_TwoRecords ==
  /\ Succeeded(rq[1]) /\ rq[1].h \in Metered
  /\ Len(audit) = 2 /\ audit[1] = EarlierRecord /\ audit[2].req = 1

\* The requests charged by design: those reported successful, and the
\* streams the caller left (C12).
Charged(q) == q.h \in Metered /\ (Succeeded(q) \/ q.fail = "cancelled")

RECURSIVE SumOver(_, _)
SumOver(f, n) == IF n = 0 THEN 0 ELSE f[n] + SumOver(f, n - 1)

\* C29: once all the concurrent requests of the user (metered requests and
\* credit additions) have ended, the balance is the opening balance minus
\* the costs of the requests that completed successfully plus the credits
\* added.
C29_FinalBalance ==
  (\A r \in Req : rq[r].pc = "done") =>
    balance = opening
                - SumOver([r \in Req |-> IF Charged(rq[r]) THEN Cost(rq[r].h) ELSE 0], NumReq)
                + SumOver([r \in Req |-> rq[r].added], NumReq)

\* What verify_payment asks for before it adds credits, as the call found it.
VerifiedPending(q) ==
  /\ q.intent_status = "succeeded"
  /\ IntentUser(q.intent) = Caller
  /\ q.saw = "pending"

\* C28: verify_payment adds credits only when the provider reports the
\* intent succeeded, the intent's user_id metadata is the caller and a
\* pending transaction of that intent and user exists; in every other case
\* it answers with an error and leaves the balance and the status of the
\* transaction as they were.
C28_VerifyPayment ==
  \A p \in Pay :
    LET q == pay[p] IN
    q.kind = "verify_payment" =>
      /\ q.added > 0 =>
           /\ VerifiedPending(q) /\ transactions[q.intent].user_id = Caller
           /\ q.added = transactions[q.intent].credits_purchased
      /\ (q.pc = "done" /\ q.status = 200) =>
           /\ q.added > 0 /\ q.marked
           /\ balance = opening + q.added
           /\ transactions[q.intent].status = "success"
      /\ (q.pc = "done" /\ ~ VerifiedPending(q)) =>
           /\ q.status \in {400, 403, 500}
           /\ q.added = 0 /\ ~ q.marked
           /\ balance = opening

\* C28 witness: a verify-payment call was answered 200 and the balance has
\* the credits of the pack.
C28_Credited ==
  \E p \in Pay :
    /\ pay[p].kind = "verify_payment" /\ pay[p].pc = "done" /\ pay[p].status = 200
    /\ balance = opening + STARTER_CREDITS

\* C30: the credits of one payment intent are added at most once, under
\* every interleaving of verify_payment calls and stripe_webhook deliveries
\* for that intent.
C30_CreditedOnce ==
  \A i \in PaymentIntents : Cardinality({p \in Pay : pay[p].intent = i /\ pay[p].added > 0}) <= 1

\* C31: the cost of a request is one amount throughout: what it reserved
\* is the cost of its operation, what it was refunded is what it reserved,
\* and the credits_used of its audit record and of its answer are what it
\* reserved.
C31_OneCost ==
  \A r \in Req :
    LET q == rq[r] IN
    q.h \in Metered =>
      /\ q.reserved = q.debits * Cost(q.h)
      /\ q.refunds >= 1 => q.refunded = q.reserved
      /\ \A k \in 1 .. Len(audit) : audit[k].req = r => audit[k].credits_used = q.reserved
      /\ (Succeeded(q) /\ q.h \in ReportsCreditsUsed) => q.used = q.reserved
      /\ q.pc = "done" => balance = opening - q.reserved + q.refunded

\* C31 witness: a request that had reserved two credits was refunded.
C31_RefundedTwo ==
  \E r \in Req :
    /\ rq[r].pc = "done" /\ rq[r].refunds = 1
    /\ rq[r].reserved = 2 /\ rq[r].refunded = 2

\* C32: build_graph makes exactly one collaborator call.  Without entities
\* it is the combined extraction-and-relationship call, and the graph
\* returned is the collaborator's; with entities it is the relationship
\* call, and the nodes returned are the extracted entities, one node per
\* entity.
C32_OneCollaboratorCall ==
  (call.fn = "build_graph" /\ call.returned) =>
    LET entities == call.args.raw_entities
        reply == call.args.reply
        res == call.result IN
    /\ Len(res.calls) = 1
    /\ entities = << >> =>
         /\ res.calls = <<"full_graph">>
         /\ reply.parsed =>
              res.nodes = reply.nodes /\ res.edges = reply.edges /\ res.themes = reply.themes
    /\ entities # << >> =>
         /\ res.calls = <<"relationships">>
         /\ Len(res.nodes) = Len(entities)
         /\ \A k \in 1 .. Len(entities) : res.nodes[k].id = entities[k].id

\* C32 witness: with entities found, the collaborator named nodes of its
\* own and the graph has the entities only.
C32_EntitiesOnly ==
  /\ call.fn = "build_graph" /\ call.returned
  /\ call.args.raw_entities # << >>
  /\ call.args.reply.parsed /\ call.args.reply.nodes # << >>
  /\ call.result.nodes = call.args.raw_entities

\* C33: a legacy persona_enhance request has created a document, holding
\* the original text, exactly when it succeeded and named no document id;
\* every other request (one that named a document id, failed validation,
\* was refused the reservation or was refunded) has left the documents as
\* they were.
C33_DocumentOnSuccess ==
  \A r \in Req :
    LET q == rq[r]
        mine == {k \in 1 .. Len(documents) : documents[k].req = r} IN
    (q.h = "persona_enhance" /\ q.pc = "done") =>
      /\ Cardinality(mine) = q.docs
      /\ q.docs = 1 <=> (Succeeded(q) /\ ~ q.in.doc_id)
      /\ \A k \in mine : documents[k].content = "original" /\ documents[k].user_id = Caller

\* The ids of a list of nodes or entities are pairwise distinct.
DistinctIds(nodes) == \A j, k \in 1 .. Len(nodes) : nodes[j].id = nodes[k].id => j = k

\* C34: the node ids of every returned graph are pairwise distinct: the
\* entities of extract_entities, which have different normalized labels,
\* have different ids, and so have the nodes of build_graph and of the
\* legacy generate_mindmap.
C34_DistinctNodeIds ==
  /\ (call.fn = "extract_entities" /\ call.returned) => DistinctIds(call.result)
  /\ (call.fn \in {"build_graph", "generate_mindmap"} /\ call.returned) =>
       DistinctIds(call.result.nodes)

\* The tag of services/diff.py that stands for a tag of app.py.
layered_tag(type) ==
  CASE type = "equal" -> "unchanged"
    [] type = "insert" -> "added"
    [] type = "delete" -> "removed"

\* C35: the two compute_diff implementations are equivalent.  For every pair
\* of texts the result of app.py and the result of services/diff.py have the
\* same length, and their i-th segments carry the same text and
\* corresponding tags.
C35_DiffEquivalence ==
  (call.fn = "app_compute_diff" /\ call.returned) =>
    LET layered == compute_diff(call.args.original, call.args.enhanced) IN
    /\ Len(call.result) = Len(layered)
    /\ \A i \in 1 .. Len(layered) :
         /\ call.result[i].text = layered[i].content
         /\ layered_tag(call.result[i].type) = layered[i].type

\* C36: whenever a layered handler answers 402 insufficient_credits, the
\* current_credits it reports is strictly less than the credits_needed it
\* reports, also when other requests change the balance between the refused
\* reservation and the read of the balance.
C36_ReportedShortfall ==
  \A r \in Req :
    LET q == rq[r] IN
    (q.h \in LayeredMetered /\ q.pc = "done" /\ q.status = 402) => q.remaining < Cost(q.h)

\* C37: the legacy add-credits route increases the caller's balance by
\* exactly amount when 1 <= amount <= 100, and for any amount outside that
\* range it returns an error and leaves the balance unchanged.  (The amount
\* of the body is counted in halves.)
C37_AddCredits ==
  \A r \in Req :
    LET q == rq[r]
        amount == q.in.amount IN
    (q.h = "add_credits_route" /\ q.pc = "done") =>
      IF 2 * ADD_AMOUNT_MIN <= amount /\ amount <= 2 * ADD_AMOUNT_MAX
      THEN 2 * (balance - opening) = amount
      ELSE q.status >= 400 /\ balance = opening

\* The score of a returned theme in the text that was given.
ScoreOf(theme) ==
  call.args.score[CHOOSE k \in 1 .. Len(theme_keywords) : theme_keywords[k] = theme]

\* C38: extract_themes_heuristic returns at most 5 themes, each with a
\* keyword-occurrence score of at least 2, in the order of non-increasing
\* score.
C38_TopThemes ==
  (call.fn = "extract_themes_heuristic" /\ call.returned) =>
    /\ Len(call.result) <= 5
    /\ \A p \in 1 .. Len(call.result) :
         /\ call.result[p] \in {theme_keywords[k] : k \in 1 .. Len(theme_keywords)}
         /\ ScoreOf(call.result[p]) >= 2
    /\ \A p, n \in 1 .. Len(call.result) :
         p < n => ScoreOf(call.result[p]) >= ScoreOf(call.result[n])

\* Six themes or more score at least 2, a later one more than an earlier
\* one, and five have been returned.
C38_SixFound ==
  /\ call.fn = "extract_themes_heuristic" /\ call.returned
  /\ Cardinality({k \in 1 .. Len(theme_keywords) : call.args.score[k] >= 2}) >= 6
  /\ call.args.score[1] = 2 /\ call.args.score[8] = 3
  /\ Len(call.result) = 5
  /\ call.result[1] # "Friendship"

====
